---- MODULE Spec2Model ----
(***************************************************************************)
(* Chore-bot: the durable chore-state store (StateDO), the tool-calling    *)
(* orchestration loop (ChoreBot.processWithAgenticLoop), its tools, the    *)
(* scheduled reminder trigger and the read-only state API.                 *)
(*                                                                         *)
(* Time is the millisecond clock read by `new Date()`; an ISO-8601 string  *)
(* is modelled by the number it encodes (toISOString / new Date(text) are  *)
(* exact at millisecond precision, and ISO strings order like their        *)
(* numbers).  A calendar date is the number of the day a time falls in.    *)
(* The clock is an input of the environment: it never goes backwards and   *)
(* may or may not advance between two operations.                          *)
(***************************************************************************)
EXTENDS Integers, Sequences, FiniteSets, TLC

VARIABLES
    storage,    \* the Durable Object's key-value storage: key -> stored value
    now,        \* the clock
    pc,         \* per invocation: where it stands
    iteration,  \* per invocation: processWithAgenticLoop's `iteration`
    queue,      \* per invocation: tool calls of the current response not yet run
    result,     \* per invocation: the text processWithAgenticLoop returned
    usedTool,   \* per invocation: the loop ran a tool since it started
    usedStore,  \* per invocation: the loop sent a store request since it started
    finish,     \* per invocation: the finish reason of the last provider response
    cronState,  \* per reminder run: `state`, the copy read at the start
    cronNow,    \* per reminder run: `now`, taken after the read
    messages,   \* per invocation: processWithAgenticLoop's `messages`, the conversation
    wrote,      \* history, per invocation: the description its last accepted updateState stored
    stamped,    \* history: the calendar dates a reminder run has stamped lastSent with
    slackRequest, \* per webhook invocation: the Slack request it is handling
    lastOp      \* history: the operation the last step performed, and its outcome

vars == <<storage, now, pc, iteration, queue, result, usedTool, usedStore,
          finish, cronState, cronNow, messages, wrote, stamped, slackRequest,
          lastOp>>

----------------------------------------------------------------------------
(* Bounds of the model *)

MaxTime == 2
DayLen == 2
MaxCalls == 1
ConcMaxCalls == 1
ConcMaxTurns == 1
ConcMaxTime == 1
SecLen == 2
TurnMaxCalls == 2
TurnMaxTurns == 2
TurnMaxTime == 1
MaxEmptyTurns == 1
MaxTurns == 2

Times == 0..MaxTime

(* Mutant: the loop allows a sixth pass. *)
MaxIterationsSix == 5 + 1

(* Program constants *)

maxIterations == 5

Webs == {"web"}
Crons == {"cron"}
Procs == Webs \cup Crons

Descs == {"d1", "d2"}
DefaultDescription ==
    "No chore rotation has been set up yet. The system is ready to track household chores and responsibilities."

----------------------------------------------------------------------------
(* JavaScript values of the fields of a ChoreState, as JSON carries them.  *)
(* `type` is what typeof / === null tell apart; an absent field and the    *)
(* value undefined are the same thing after JSON.stringify.                *)

Text(s) == [type |-> "string", val |-> s]
NoText == [type |-> "undefined", val |-> ""]
NumText == [type |-> "number", val |-> ""]
TextValues == {Text(d) : d \in Descs} \cup {NoText, NumText}

Stamp(t) == [type |-> "string", val |-> t]
NoStamp == [type |-> "undefined", val |-> 0]
NullStamp == [type |-> "null", val |-> 0]
NumStamp == [type |-> "number", val |-> 0]

(* Date.prototype.toDateString(): the calendar date of a time. *)
ToDateString(t) == t \div DayLen

(* toISOString().split('T')[0]: the date part of the ISO text. *)
IsoDate(t) == t \div DayLen

(* Date.prototype.toLocaleString(): date and time of day to the second,    *)
(* the milliseconds dropped.                                               *)
ToLocaleString(t) == t \div SecLen

----------------------------------------------------------------------------
(* StateDO: the store *)

PrimaryKey == <<"choreState", 0>>
(* Mutant: one backup key, overwritten by every write. *)
BackupKeyRolling(t) == <<"backup", 0>>

BackupKey(t) == <<"backup", IsoDate(t)>>

EmptyStorage == [k \in {} |-> 0]

Has(st, k) == k \in DOMAIN st

(* storage.put(key, value) *)
Put(st, k, v) == [x \in (DOMAIN st) \cup {k} |-> IF x = k THEN v ELSE st[x]]

DefaultState(t) ==
    [description |-> Text(DefaultDescription),
     lastUpdated |-> Stamp(t),
     lastSent |-> NoStamp]

(* Mutant: every read refreshes lastUpdated. *)
GetStateTouching(st, t) ==
    IF Has(st, PrimaryKey)
    THEN [storage |-> Put(st, PrimaryKey,
                          [st[PrimaryKey] EXCEPT !.lastUpdated = Stamp(t)]),
          state |-> [st[PrimaryKey] EXCEPT !.lastUpdated = Stamp(t)]]
    ELSE [storage |-> Put(st, PrimaryKey, DefaultState(t)),
          state |-> DefaultState(t)]

(* Mutant: the default is returned without being stored. *)
GetStateNotPersisting(st, t) ==
    IF Has(st, PrimaryKey)
    THEN [storage |-> st, state |-> st[PrimaryKey]]
    ELSE [storage |-> st, state |-> DefaultState(t)]

(* StateDO.getState: the record, created with the default on first access. *)
GetState(st, t) ==
    IF Has(st, PrimaryKey)
    THEN [storage |-> st, state |-> st[PrimaryKey]]
    ELSE [storage |-> Put(st, PrimaryKey, DefaultState(t)),
          state |-> DefaultState(t)]

(* StateDO.handleRead: GET /read *)
HandleRead(st, t) ==
    [status |-> 200, storage |-> GetState(st, t).storage,
     body |-> GetState(st, t).state]

(* A payload of POST /write: the parsed JSON body.  kind "object" carries  *)
(* the three fields; "null" is the JSON value null, "number" a primitive.  *)
Payload(d, lu, ls) ==
    [kind |-> "object", description |-> d, lastUpdated |-> lu, lastSent |-> ls]
Primitive(k) ==
    [kind |-> k, description |-> NoText, lastUpdated |-> NoStamp, lastSent |-> NoStamp]
NoPayload == Primitive("none")

(* Mutant: the description is not checked. *)
ValidateStateNoDescription(p) ==
    /\ p.kind = "object"
    /\ p.lastUpdated.type = "string"
    /\ p.lastSent.type \in {"undefined", "null", "string"}

(* validateState reads state.description of its argument: for null that    *)
(* property access throws a TypeError.                                     *)
ValidateThrows(p) == p.kind = "null"

ValidateState(p) ==
    /\ p.kind = "object"
    /\ p.description.type = "string"
    /\ p.lastUpdated.type = "string"
    /\ p.lastSent.type \in {"undefined", "null", "string"}

(* Mutant: the payload is stored without validateState. *)
HandleWriteUnvalidated(st, p, t) ==
    IF ValidateThrows(p)
    THEN [status |-> 0, storage |-> st]
    ELSE LET newState == [description |-> p.description,
                          lastUpdated |-> Stamp(t),
                          lastSent |-> p.lastSent]
         IN [status |-> 200,
             storage |-> Put(Put(st, PrimaryKey, newState), BackupKey(t), newState)]

(* Mutant: the caller's lastUpdated is stored as sent. *)
HandleWriteTrustingCaller(st, p, t) ==
    IF ValidateThrows(p)
    THEN [status |-> 0, storage |-> st]
    ELSE IF ~ValidateState(p)
    THEN [status |-> 400, storage |-> st]
    ELSE LET newState == [description |-> p.description,
                          lastUpdated |-> p.lastUpdated,
                          lastSent |-> p.lastSent]
         IN [status |-> 200,
             storage |-> Put(Put(st, PrimaryKey, newState), BackupKey(t), newState)]

(* Mutant: a payload without lastSent is merged into the stored record. *)
HandleWriteMerging(st, p, t) ==
    IF ValidateThrows(p)
    THEN [status |-> 0, storage |-> st]
    ELSE IF ~ValidateState(p)
    THEN [status |-> 400, storage |-> st]
    ELSE LET newState == [description |-> p.description,
                          lastUpdated |-> Stamp(t),
                          lastSent |-> IF p.lastSent.type = "undefined"
                                          /\ Has(st, PrimaryKey)
                                       THEN st[PrimaryKey].lastSent
                                       ELSE p.lastSent]
         IN [status |-> 200,
             storage |-> Put(Put(st, PrimaryKey, newState), BackupKey(t), newState)]

(* Mutant: an existing record keeps its lastUpdated. *)
HandleWriteKeepingStamp(st, p, t) ==
    IF ValidateThrows(p)
    THEN [status |-> 0, storage |-> st]
    ELSE IF ~ValidateState(p)
    THEN [status |-> 400, storage |-> st]
    ELSE LET newState == [description |-> p.description,
                          lastUpdated |-> IF Has(st, PrimaryKey)
                                          THEN st[PrimaryKey].lastUpdated
                                          ELSE Stamp(t),
                          lastSent |-> p.lastSent]
         IN [status |-> 200,
             storage |-> Put(Put(st, PrimaryKey, newState), BackupKey(t), newState)]

(* StateDO.handleWrite: POST /write.  status 0 stands for the request       *)
(* failing with an exception (fetch returns handleWrite's promise without  *)
(* awaiting it, so its try/catch does not turn the rejection into a 500).  *)
HandleWrite(st, p, t) ==
    IF ValidateThrows(p)
    THEN [status |-> 0, storage |-> st]
    ELSE IF ~ValidateState(p)
    THEN [status |-> 400, storage |-> st]
    ELSE LET newState == [description |-> p.description,
                          lastUpdated |-> Stamp(t),
                          lastSent |-> p.lastSent]
         IN [status |-> 200,
             storage |-> Put(Put(st, PrimaryKey, newState), BackupKey(t), newState)]

----------------------------------------------------------------------------
(* ChoreBot: the tools *)

(* Mutant: the calendar operation is not offered. *)
GetToolsWithoutCalendar == {"readState", "updateState"}

(* ChoreBot.getTools: the names of the operations offered to the provider; *)
(* the method takes no argument and reads no field.                        *)
GetTools == {"readState", "updateState", "createCalendarEvent"}

(* A tool call of a provider response: the function name, whether the      *)
(* arguments text is JSON that JSON.parse accepts, whether it parses to    *)
(* null, and args.description.                                             *)
Call(n, j, d) == [name |-> n, json |-> j, argsNull |-> FALSE, description |-> d]

(* A call whose arguments text is "null". *)
NullCall(n) == [name |-> n, json |-> TRUE, argsNull |-> TRUE, description |-> NoText]

ToolCalls ==
    {Call("readState", TRUE, NoText), Call("createCalendarEvent", TRUE, NoText),
     Call("deleteState", TRUE, NoText), Call("updateState", FALSE, NoText),
     NullCall("updateState"), NullCall("createCalendarEvent")}
    \cup {Call("updateState", TRUE, d) : d \in TextValues}

(* What the calendar collaborator does with one createCalendarEvent, and   *)
(* what the store does with one request of a tool.                         *)
CalendarOutcomes ==
    {"created", "credentialsBad", "tokenFailed", "tokenRejected", "apiError"}
StoreOutcomes == {"answered", "unavailable"}

(* What a call meets on its way: only a call that reaches a tool's         *)
(* implementation meets a collaborator.                                    *)
OutcomesFor(call) ==
    IF call.json /\ call.name = "createCalendarEvent" THEN CalendarOutcomes
    ELSE IF call.json /\ call.name = "readState" THEN StoreOutcomes
    ELSE IF call.json /\ call.name = "updateState" /\ ~call.argsNull THEN StoreOutcomes
    ELSE {"none"}

NoBody == [description |-> NoText, lastUpdated |-> NoStamp, lastSent |-> NoStamp]

(* The text a tool call contributes to the conversation: what kind of      *)
(* sentence it is, the date-and-time it spells out and the description it  *)
(* quotes.                                                                 *)
Output(kind, time, description) ==
    [kind |-> kind, time |-> time, description |-> description]
NoOutput == Output("none", 0, NoText)

(* The text of the catch around runTool: "Error executing <name>: ...". *)
ErrorOutput == Output("error", 0, NoText)

(* runTool threw: nothing was stored; `requests` are the outbound requests *)
(* made before the throw.                                                  *)
ToolThrew(st, requests) ==
    [threw |-> TRUE, text |-> "error", output |-> ErrorOutput, storage |-> st,
     storeRequest |-> requests # <<>>, requests |-> requests, status |-> 0,
     body |-> NoBody, payload |-> NoPayload]

(* Mutant: the text shows the time of the read, not the record's           *)
(* lastUpdated.                                                            *)
ReadStateToolShowingNow(st, t, outcome) ==
    IF outcome = "unavailable" THEN ToolThrew(st, <<"read">>)
    ELSE LET r == HandleRead(st, t)
         IN [threw |-> FALSE, text |-> "state",
             output |-> Output("state", ToLocaleString(t), r.body.description),
             storage |-> r.storage, storeRequest |-> TRUE, requests |-> <<"read">>,
             status |-> r.status, body |-> r.body, payload |-> NoPayload]

(* ChoreBot.readState: GET /read, the state rendered as text. *)
ReadStateTool(st, t, outcome) ==
    IF outcome = "unavailable" THEN ToolThrew(st, <<"read">>)
    ELSE LET r == HandleRead(st, t)
         IN [threw |-> FALSE, text |-> "state",
             output |-> Output("state", ToLocaleString(r.body.lastUpdated.val),
                               r.body.description),
             storage |-> r.storage, storeRequest |-> TRUE, requests |-> <<"read">>,
             status |-> r.status, body |-> r.body, payload |-> NoPayload]

(* ChoreBot.updateState: POST /write of {description, lastUpdated}; the    *)
(* response is not looked at.                                              *)
UpdateStateTool(st, description, t, outcome) ==
    IF outcome = "unavailable" THEN ToolThrew(st, <<"write">>)
    ELSE LET w == HandleWrite(st, Payload(description, Stamp(t), NoStamp), t)
         IN [threw |-> w.status = 0,
             text |-> IF w.status = 0 THEN "error" ELSE "updated",
             output |-> IF w.status = 0 THEN ErrorOutput
                        ELSE Output("updated", ToLocaleString(t), NoText),
             storage |-> w.storage, storeRequest |-> TRUE, requests |-> <<"write">>,
             status |-> w.status, body |-> NoBody,
             payload |-> Payload(description, Stamp(t), NoStamp)]

(* Mutant: the calendar is called whatever became of the exchange. *)
CalendarRequestsAlwaysBoth(argsNull, outcome) ==
    IF outcome = "credentialsBad" THEN <<>> ELSE <<"token", "calendar">>

(* The outbound requests of one createCalendarEventTool call.  The service *)
(* account may be unusable (no request is made); the exchange request may  *)
(* fail, or be answered with an error, which getGoogleAccessToken does not *)
(* look at; building the event from null arguments throws after the        *)
(* exchange.                                                               *)
CalendarRequests(argsNull, outcome) ==
    IF outcome = "credentialsBad" THEN <<>>
    ELSE IF outcome = "tokenFailed" \/ argsNull THEN <<"token">>
    ELSE <<"token", "calendar">>

CalendarCreated(argsNull, outcome) == outcome = "created" /\ ~argsNull

(* Mutant: a failure of the calendar collaborator is thrown to the caller. *)
CreateCalendarEventToolThrowing(st, argsNull, outcome) ==
    [threw |-> ~CalendarCreated(argsNull, outcome),
     text |-> IF CalendarCreated(argsNull, outcome) THEN "calendarCreated" ELSE "error",
     output |-> IF CalendarCreated(argsNull, outcome)
                THEN Output("calendarCreated", 0, NoText)
                ELSE ErrorOutput,
     storage |-> st, storeRequest |-> FALSE,
     requests |-> CalendarRequests(argsNull, outcome),
     status |-> 0, body |-> NoBody, payload |-> NoPayload]

(* Mutant: a failed calendar call takes the stored record back. *)
CreateCalendarEventToolRollingBack(st, argsNull, outcome) ==
    [threw |-> FALSE,
     text |-> IF CalendarCreated(argsNull, outcome) THEN "calendarCreated"
              ELSE "calendarFailed",
     output |-> Output(IF CalendarCreated(argsNull, outcome) THEN "calendarCreated"
                       ELSE "calendarFailed", 0, NoText),
     storage |-> IF CalendarCreated(argsNull, outcome) THEN st
                 ELSE [k \in (DOMAIN st) \ {PrimaryKey} |-> st[k]],
     storeRequest |-> FALSE,
     requests |-> CalendarRequests(argsNull, outcome),
     status |-> 0, body |-> NoBody, payload |-> NoPayload]

(* ChoreBot.createCalendarEventTool: the credential exchange, then the     *)
(* calendar call; every failure is caught inside and becomes the text      *)
(* "Failed to create calendar event: ...".                                 *)
CreateCalendarEventTool(st, argsNull, outcome) ==
    [threw |-> FALSE,
     text |-> IF CalendarCreated(argsNull, outcome) THEN "calendarCreated"
              ELSE "calendarFailed",
     output |-> Output(IF CalendarCreated(argsNull, outcome) THEN "calendarCreated"
                       ELSE "calendarFailed", 0, NoText),
     storage |-> st, storeRequest |-> FALSE,
     requests |-> CalendarRequests(argsNull, outcome),
     status |-> 0, body |-> NoBody, payload |-> NoPayload]

(* Mutant: a name that is not registered is served as readState. *)
RunToolDefaultReads(st, call, t, outcome) ==
    IF ~call.json THEN ToolThrew(st, <<>>)
    ELSE IF call.name = "updateState"
         THEN IF call.argsNull THEN ToolThrew(st, <<>>)
              ELSE UpdateStateTool(st, call.description, t, outcome)
    ELSE IF call.name = "createCalendarEvent"
         THEN CreateCalendarEventTool(st, call.argsNull, outcome)
    ELSE ReadStateTool(st, t, "answered")

(* ChoreBot.runTool, with the try/catch the loop puts around it: a thrown  *)
(* error becomes the text "Error executing ...".                           *)
RunTool(st, call, t, outcome) ==
    IF ~call.json THEN ToolThrew(st, <<>>)
    ELSE IF call.name = "readState" THEN ReadStateTool(st, t, outcome)
    ELSE IF call.name = "updateState"
         THEN IF call.argsNull THEN ToolThrew(st, <<>>)
              ELSE UpdateStateTool(st, call.description, t, outcome)
    ELSE IF call.name = "createCalendarEvent"
         THEN CreateCalendarEventTool(st, call.argsNull, outcome)
    ELSE ToolThrew(st, <<>>)

(* Mutant: the times are compared, not their dates. *)
SentTodayExact(state, t) ==
    /\ state.lastSent.type = "string"
    /\ state.lastSent.val = t

(* sendScheduledReminder's test `lastSent && lastSent.toDateString() ===   *)
(* now.toDateString()` on the state it read.                               *)
SentToday(state, t) ==
    /\ state.lastSent.type = "string"
    /\ ToDateString(state.lastSent.val) = ToDateString(t)

----------------------------------------------------------------------------
(* ChoreBot.processWithAgenticLoop: the provider's responses and the texts  *)
(* the loop returns                                                        *)

StopFallback ==
    "I've completed your request. Is there anything else you'd like me to help with?"
LengthMessage ==
    "I need to continue this conversation, but I've reached the length limit. Could you please restate your request?"
GenericMessage ==
    "I've processed your request with multiple steps. The chore state has been updated as needed. Is there anything specific you'd like me to clarify?"
TechnicalMessage ==
    "I'm experiencing some technical difficulties. Please try your request again."

Contents == {"", "Alice has the trash this week."}

(* The provider's possible lists of tool calls, at most n long. *)
CallLists(n) == UNION {[1..k -> ToolCalls] : k \in 0..n}

(* completion.choices[0]: the finish reason, message.content and           *)
(* message.tool_calls (absent, or a list).                                 *)
Response(reason, content, present, calls) ==
    [finish_reason |-> reason, content |-> content, hasToolCalls |-> present,
     tool_calls |-> calls]

Responses(n) ==
    {Response("stop", c, FALSE, <<>>) : c \in Contents}
    \cup {Response("stop", "", TRUE, calls) : calls \in CallLists(n)}
    \cup {Response("tool_calls", "", TRUE, calls) : calls \in CallLists(n)}
    \cup {Response(reason, "", FALSE, <<>>) :
             reason \in {"tool_calls", "length", "content_filter"}}

(* Mutant: tool calls are run whenever the message carries some. *)
BranchToolsFirst(resp) ==
    IF resp.hasToolCalls THEN "tools"
    ELSE IF resp.finish_reason = "stop" THEN "stop"
    ELSE IF resp.finish_reason = "length" THEN "length"
    ELSE "break"

(* Mutant: length is not told apart from the other finish reasons. *)
BranchNoLength(resp) ==
    IF resp.finish_reason = "stop" THEN "stop"
    ELSE IF resp.finish_reason = "tool_calls" /\ resp.hasToolCalls THEN "tools"
    ELSE "break"

(* The chain of tests on the finish reason. *)
Branch(resp) ==
    IF resp.finish_reason = "stop" THEN "stop"
    ELSE IF resp.finish_reason = "tool_calls" /\ resp.hasToolCalls THEN "tools"
    ELSE IF resp.finish_reason = "length" THEN "length"
    ELSE "break"

(* Mutant: the fallback is returned whatever the assistant said. *)
StopTextFallbackOnly(resp) == StopFallback

(* `assistantMsg.content || fallback` *)
StopText(resp) == IF resp.content # "" THEN resp.content ELSE StopFallback

----------------------------------------------------------------------------
(* The state machine *)

(* A message of the conversation: its role, the tool_call_id of a tool     *)
(* message and the ids of the tool calls an assistant message asks for.    *)
(* The content of a tool message is recorded when it is pushed             *)
(* (lastOp.output): no code changes a message once it is in the list.      *)
Message(role, id, calls) == [role |-> role, tool_call_id |-> id, tool_calls |-> calls]

NoId == <<0, 0>>

(* The id the provider gives the k-th tool call of its i-th response. *)
CallId(i, k) == <<i, k>>

(* Mutant: the calls are taken from the last to the first. *)
WithIdsReversed(calls, i) ==
    IF calls = <<>> THEN <<>>
    ELSE [k \in 1..Len(calls) |->
             [id |-> CallId(i, Len(calls) + 1 - k),
              function |-> calls[Len(calls) + 1 - k]]]

(* assistantMsg.tool_calls: each call with its id and its function. *)
WithIds(calls, i) ==
    IF calls = <<>> THEN <<>>
    ELSE [k \in 1..Len(calls) |-> [id |-> CallId(i, k), function |-> calls[k]]]

IdsOf(toolCalls) ==
    IF toolCalls = <<>> THEN <<>>
    ELSE [k \in 1..Len(toolCalls) |-> toolCalls[k].id]

(* The conversation a loop starts with: the system prompt and the          *)
(* instruction.                                                            *)
InitialMessages == <<Message("system", NoId, <<>>), Message("user", NoId, <<>>)>>

AssistantMessage(toolCalls) == Message("assistant", NoId, IdsOf(toolCalls))

(* Mutant: the tool message of a failed call is not pushed. *)
PushToolMessageUnlessError(msgs, toolCall, output) ==
    IF output.kind = "error" THEN msgs
    ELSE Append(msgs, Message("tool", toolCall.id, <<>>))

(* messages.push({role: 'tool', tool_call_id: toolCall.id, content}), in   *)
(* the try and in the catch alike.                                         *)
PushToolMessage(msgs, toolCall, output) ==
    Append(msgs, Message("tool", toolCall.id, <<>>))

(* What happens to the reply a webhook handler sends to the chat. *)
DeliveryOutcomes == {"delivered", "deliveryFailed"}

(* The Slack webhook: what handleSlackWebhook looks at in a request.  The  *)
(* X-Slack-Request-Timestamp header is absent, or a time within the replay *)
(* window, or an older one; the X-Slack-Signature header is absent or the  *)
(* HMAC some key holder computed over a timestamp and a body; the body is  *)
(* a /rusty slash command, a mention or direct message event, an event     *)
(* with a bot_id or the subtype bot_message, another event, the            *)
(* url_verification handshake, or text that is not JSON sent as JSON.      *)
ReplayWindow == 300
SigningSecret == "SLACK_SIGNING_SECRET"
Keys == {SigningSecret, "guess"}
Timestamps == {"absent", "recent", "old"}
Bodies ==
    {"command", "message", "botMessage", "otherEvent", "url_verification",
     "badJson"}
(* 'v0=' + hex(HMAC-SHA256(key, `v0:${timestamp}:${body}`)): two of them   *)
(* are equal exactly when key, timestamp and body are.                     *)
Hmac(key, timestamp, body) == <<"v0", key, timestamp, body>>
NoSignature == <<"absent", "", "", "">>
Signatures ==
    {NoSignature}
    \cup {Hmac(k, ts, b) : k \in Keys, ts \in {"recent", "old"}, b \in Bodies}
(* The requests considered: a signature, when present, was computed over   *)
(* the body sent or over a slash command (a signature taken from another   *)
(* request).                                                               *)
SlackRequests ==
    {req \in [method : {"POST", "GET"}, timestamp : Timestamps,
              signature : Signatures, body : Bodies] :
        \/ req.signature = NoSignature
        \/ req.signature[4] \in {req.body, "command"}}
NoRequest ==
    [method |-> "none", timestamp |-> "absent", signature |-> NoSignature,
     body |-> "none"]
(* Math.abs(now - parseInt(timestamp)), in seconds. *)
Age(timestamp) == IF timestamp = "old" THEN ReplayWindow + 1 ELSE ReplayWindow

(* Mutant: the signature header is only required to be present. *)
VerifySlackSignaturePresenceOnly(req) ==
    /\ req.timestamp # "absent"
    /\ req.signature # NoSignature
    /\ ~(Age(req.timestamp) > ReplayWindow)

(* verifySlackSignature *)
VerifySlackSignature(req) ==
    /\ req.timestamp # "absent"
    /\ req.signature # NoSignature
    /\ ~(Age(req.timestamp) > ReplayWindow)
    /\ Hmac(SigningSecret, req.timestamp, req.body) = req.signature

(* The status of handleSlackWebhook's response. *)
WebhookStatus(req) ==
    IF req.method # "POST" THEN 405
    ELSE IF ~VerifySlackSignature(req) THEN 401
    ELSE IF req.body = "badJson" THEN 400
    ELSE 200

(* Mutant: handleSlackEvent does not look at bot_id and subtype. *)
IsInstructionForBots(req) ==
    WebhookStatus(req) = 200 /\ req.body \in {"command", "message", "botMessage"}

(* Whether the request reaches processCommand / processMessage: a /rusty   *)
(* command does; of the events, a message with a mention or in a direct    *)
(* channel does unless it carries a bot_id or the subtype bot_message.     *)
IsInstruction(req) ==
    WebhookStatus(req) = 200 /\ req.body \in {"command", "message"}

(* response_type in_channel, text "Processing your request...": what       *)
(* handleChoresCommand returns at once.                                    *)
ImmediateResponse == "Processing your request..."

Op(p, op, status, text, body, payload) ==
    [proc |-> p, op |-> op, status |-> status, text |-> text, body |-> body,
     payload |-> payload, output |-> NoOutput, requests |-> <<>>,
     outcome |-> "none", calls |-> -1, request |-> NoRequest, tools |-> {}]

Running(p) == pc[p] # "idle"

Init ==
    /\ storage = EmptyStorage
    /\ now = 0
    /\ pc = [p \in Procs |-> "idle"]
    /\ iteration = [p \in Procs |-> 0]
    /\ queue = [p \in Procs |-> <<>>]
    /\ result = [p \in Procs |-> ""]
    /\ usedTool = [p \in Procs |-> FALSE]
    /\ usedStore = [p \in Procs |-> FALSE]
    /\ finish = [p \in Procs |-> "none"]
    /\ cronState = [p \in Crons |-> NoBody]
    /\ cronNow = [p \in Crons |-> 0]
    /\ messages = [p \in Procs |-> <<>>]
    /\ wrote = [p \in Procs |-> NoText]
    /\ stamped = {}
    /\ slackRequest = [p \in Webs |-> NoRequest]
    /\ lastOp = Op("none", "none", 0, "", NoBody, NoPayload)

(* The clock advances. *)
Tick(maxTime) ==
    /\ UNCHANGED slackRequest
    /\ now < maxTime
    /\ now' = now + 1
    /\ lastOp' = Op("clock", "tick", 0, "", NoBody, NoPayload)
    /\ UNCHANGED <<storage, pc, iteration, queue, result, usedTool, usedStore,
                   finish, cronState, cronNow, messages, wrote,
                   stamped>>

(* processWithAgenticLoop returns `text` to its caller: the webhook        *)
(* handler, or sendScheduledReminder, which goes on to its write-back.     *)
Return(p, text) ==
    /\ result' = [result EXCEPT ![p] = text]
    /\ pc' = [pc EXCEPT ![p] = IF p \in Crons THEN "writeback" ELSE "done"]

(* Mutant: the cap is tested one pass early, after the tool calls. *)
ContinueStoppingEarly(p, i) ==
    IF i < maxIterations - 1
    THEN /\ pc' = [pc EXCEPT ![p] = "request"]
         /\ UNCHANGED result
    ELSE Return(p, GenericMessage)

(* `continue` after the tool calls of pass number i, then the loop         *)
(* condition `iteration < maxIterations`.                                  *)
Continue(p, i) ==
    IF i < maxIterations
    THEN /\ pc' = [pc EXCEPT ![p] = "request"]
         /\ UNCHANGED result
    ELSE Return(p, GenericMessage)

(* The locals of a fresh processWithAgenticLoop call. *)
EnterLoop(p) ==
    /\ iteration' = [iteration EXCEPT ![p] = 0]
    /\ queue' = [queue EXCEPT ![p] = <<>>]
    /\ usedTool' = [usedTool EXCEPT ![p] = FALSE]
    /\ usedStore' = [usedStore EXCEPT ![p] = FALSE]
    /\ finish' = [finish EXCEPT ![p] = "none"]

(* processCommand / processMessage: a webhook instruction enters the loop. *)
StartInstruction(p, concurrent) ==
    /\ UNCHANGED slackRequest
    /\ p \in Webs
    /\ pc[p] = "idle"
    /\ concurrent \/ \A q \in Procs \ {p} : ~Running(q)
    /\ pc' = [pc EXCEPT ![p] = "request"]
    /\ result' = [result EXCEPT ![p] = ""]
    /\ EnterLoop(p)
    /\ messages' = [messages EXCEPT ![p] = InitialMessages]
    /\ wrote' = [wrote EXCEPT ![p] = NoText]
    /\ lastOp' = Op(p, "start", 0, "", NoBody, NoPayload)
    /\ UNCHANGED <<storage, now, cronState, cronNow, stamped>>

(* One pass of the while loop up to the tool calls: iteration++, the       *)
(* provider round trip, and the branch on the finish reason.  The provider *)
(* is an input: it lists at most maxCalls tool calls in a response, asks   *)
(* for tools in its first maxTurns responses only, and sends an empty list *)
(* of tool calls in its first MaxEmptyTurns responses only.                *)
ProviderResponds(p, maxCalls, maxTurns) ==
    /\ UNCHANGED slackRequest
    /\ pc[p] = "request"
    /\ iteration[p] < maxIterations
    /\ iteration' = [iteration EXCEPT ![p] = iteration[p] + 1]
    /\ \E resp \in Responses(maxCalls) :
         /\ Branch(resp) = "tools" => iteration[p] < maxTurns
         /\ (Branch(resp) = "tools" /\ resp.tool_calls = <<>>)
               => iteration[p] < MaxEmptyTurns
         /\ finish' = [finish EXCEPT ![p] = resp.finish_reason]
         /\ messages' = [messages EXCEPT ![p] =
                           IF Branch(resp) = "tools"
                           THEN Append(messages[p],
                                       AssistantMessage(WithIds(resp.tool_calls,
                                                                iteration[p] + 1)))
                           ELSE messages[p]]
         /\ lastOp' = [Op(p, "respond", 0, resp.finish_reason, NoBody, NoPayload)
                          EXCEPT !.output = Output("content", 0, Text(resp.content)),
                                 !.calls = IF resp.hasToolCalls
                                           THEN Len(resp.tool_calls) ELSE -1,
                                 !.tools = GetTools]
         /\ CASE Branch(resp) = "stop" ->
                   Return(p, StopText(resp)) /\ UNCHANGED queue
              [] Branch(resp) = "tools" ->
                   /\ queue' = [queue EXCEPT ![p] =
                                   WithIds(resp.tool_calls, iteration[p] + 1)]
                   /\ IF resp.tool_calls = <<>>
                      THEN Continue(p, iteration[p] + 1)
                      ELSE pc' = [pc EXCEPT ![p] = "tools"] /\ UNCHANGED result
              [] Branch(resp) = "length" ->
                   Return(p, LengthMessage) /\ UNCHANGED queue
              [] OTHER ->
                   Return(p, GenericMessage) /\ UNCHANGED queue
    /\ UNCHANGED <<storage, now, usedTool, usedStore, cronState, cronNow, wrote,
                   stamped>>

(* Mutant: a failed provider call is retried in the next pass. *)
ProviderFailsRetrying(p) ==
    /\ UNCHANGED slackRequest
    /\ pc[p] = "request"
    /\ iteration[p] < maxIterations
    /\ iteration' = [iteration EXCEPT ![p] = iteration[p] + 1]
    /\ finish' = [finish EXCEPT ![p] = "threw"]
    /\ lastOp' = [Op(p, "respond", 0, "threw", NoBody, NoPayload)
                     EXCEPT !.tools = GetTools]
    /\ Continue(p, iteration[p] + 1)
    /\ UNCHANGED <<storage, now, queue, usedTool, usedStore, cronState, cronNow,
                   messages, wrote, stamped>>

(* The provider call throws: the catch around the loop returns the         *)
(* technical-difficulties text.                                            *)
ProviderFails(p) ==
    /\ UNCHANGED slackRequest
    /\ pc[p] = "request"
    /\ iteration[p] < maxIterations
    /\ iteration' = [iteration EXCEPT ![p] = iteration[p] + 1]
    /\ finish' = [finish EXCEPT ![p] = "threw"]
    /\ lastOp' = [Op(p, "respond", 0, "threw", NoBody, NoPayload)
                     EXCEPT !.tools = GetTools]
    /\ Return(p, TechnicalMessage)
    /\ UNCHANGED <<storage, now, queue, usedTool, usedStore, cronState, cronNow,
                   messages, wrote, stamped>>

(* Mutant: a call that throws ends the for loop; the calls listed after it *)
(* are dropped.                                                            *)
ToolStepAborting(p) ==
    /\ UNCHANGED slackRequest
    /\ pc[p] = "tools"
    /\ queue[p] # <<>>
    /\ \E outcome \in OutcomesFor(Head(queue[p]).function) :
         LET toolCall == Head(queue[p])
             call == toolCall.function
             r == RunTool(storage, call, now, outcome)
             rest == IF r.threw THEN <<>> ELSE Tail(queue[p])
         IN /\ storage' = r.storage
            /\ usedStore' = [usedStore EXCEPT ![p] = usedStore[p] \/ r.storeRequest]
            /\ messages' = [messages EXCEPT ![p] =
                              PushToolMessage(messages[p], toolCall, r.output)]
            /\ wrote' = [wrote EXCEPT ![p] =
                           IF call.name = "updateState" /\ r.status = 200
                           THEN call.description ELSE wrote[p]]
            /\ lastOp' = [Op(p, IF call.json THEN call.name ELSE "badArguments",
                             r.status, r.text, r.body, r.payload)
                             EXCEPT !.output = r.output, !.requests = r.requests,
                                    !.outcome = outcome]
            /\ queue' = [queue EXCEPT ![p] = rest]
            /\ IF rest = <<>>
               THEN Continue(p, iteration[p])
               ELSE UNCHANGED <<pc, result>>
    /\ usedTool' = [usedTool EXCEPT ![p] = TRUE]
    /\ UNCHANGED <<now, iteration, finish, cronState, cronNow, stamped>>

(* The body of `for (const toolCall of assistantMsg.tool_calls)` for the   *)
(* next call of the response; after the last one the loop continues.       *)
ToolStep(p) ==
    /\ UNCHANGED slackRequest
    /\ pc[p] = "tools"
    /\ queue[p] # <<>>
    /\ \E outcome \in OutcomesFor(Head(queue[p]).function) :
         LET toolCall == Head(queue[p])
             call == toolCall.function
             r == RunTool(storage, call, now, outcome)
         IN /\ storage' = r.storage
            /\ usedStore' = [usedStore EXCEPT ![p] = usedStore[p] \/ r.storeRequest]
            /\ messages' = [messages EXCEPT ![p] =
                              PushToolMessage(messages[p], toolCall, r.output)]
            /\ wrote' = [wrote EXCEPT ![p] =
                           IF call.name = "updateState" /\ r.status = 200
                           THEN call.description ELSE wrote[p]]
            /\ lastOp' = [Op(p, IF call.json THEN call.name ELSE "badArguments",
                             r.status, r.text, r.body, r.payload)
                             EXCEPT !.output = r.output, !.requests = r.requests,
                                    !.outcome = outcome]
    /\ usedTool' = [usedTool EXCEPT ![p] = TRUE]
    /\ queue' = [queue EXCEPT ![p] = Tail(queue[p])]
    /\ IF Tail(queue[p]) = <<>>
       THEN Continue(p, iteration[p])
       ELSE UNCHANGED <<pc, result>>
    /\ UNCHANGED <<now, iteration, finish, cronState, cronNow, stamped>>

(* sendScheduledReminder up to its call of the loop: the read, the         *)
(* same-day test, and either the early return or the loop's start.         *)
ReminderStart(p, concurrent) ==
    /\ UNCHANGED slackRequest
    /\ p \in Crons
    /\ pc[p] = "idle"
    /\ concurrent \/ \A q \in Procs \ {p} : ~Running(q)
    /\ LET r == HandleRead(storage, now)
           skip == SentToday(r.body, now)
       IN /\ storage' = r.storage
          /\ cronState' = [cronState EXCEPT ![p] = r.body]
          /\ cronNow' = [cronNow EXCEPT ![p] = now]
          /\ pc' = [pc EXCEPT ![p] = IF skip THEN "done" ELSE "request"]
          /\ messages' = [messages EXCEPT ![p] =
                            IF skip THEN <<>> ELSE InitialMessages]
          /\ lastOp' = Op(p, IF skip THEN "reminderSkipped" ELSE "reminderStart",
                          r.status, "", r.body, NoPayload)
    /\ result' = [result EXCEPT ![p] = ""]
    /\ wrote' = [wrote EXCEPT ![p] = NoText]
    /\ EnterLoop(p)
    /\ UNCHANGED <<now, stamped>>

(* Mutant: the write-back sends the copy it read, lastSent untouched. *)
UpdatedStateKeepingLastSent(state, t) ==
    Payload(state.description, state.lastUpdated, state.lastSent)

(* The payload sendScheduledReminder writes back: {...state, lastSent}. *)
UpdatedState(state, t) == Payload(state.description, state.lastUpdated, Stamp(t))

(* sendScheduledReminder after the loop returned: the write-back of the    *)
(* copy read at the start, with lastSent set to the run's `now`.           *)
ReminderWriteBack(p) ==
    /\ UNCHANGED slackRequest
    /\ p \in Crons
    /\ pc[p] = "writeback"
    /\ LET w == HandleWrite(storage, UpdatedState(cronState[p], cronNow[p]), now)
       IN /\ storage' = w.storage
          /\ stamped' = IF w.status = 200
                        THEN stamped \cup {ToDateString(cronNow[p])}
                        ELSE stamped
          /\ lastOp' = Op(p, "reminderWrite", w.status, "", NoBody,
                          UpdatedState(cronState[p], cronNow[p]))
    /\ pc' = [pc EXCEPT ![p] = "done"]
    /\ UNCHANGED <<now, iteration, queue, result, usedTool, usedStore, finish,
                   cronState, cronNow, messages, wrote>>

(* The locals of an invocation that has ended. *)
DropLocals(p) ==
    /\ pc' = [pc EXCEPT ![p] = "idle"]
    /\ result' = [result EXCEPT ![p] = ""]
    /\ messages' = [messages EXCEPT ![p] = <<>>]
    /\ wrote' = [wrote EXCEPT ![p] = NoText]
    /\ EnterLoop(p)
    /\ cronState' = [q \in Crons |-> IF q = p THEN NoBody ELSE cronState[q]]
    /\ cronNow' = [q \in Crons |-> IF q = p THEN 0 ELSE cronNow[q]]

(* The reminder run has returned and its locals are gone. *)
Forget(p) ==
    /\ UNCHANGED slackRequest
    /\ p \in Crons
    /\ pc[p] = "done"
    /\ DropLocals(p)
    /\ lastOp' = Op(p, "forget", 0, "", NoBody, NoPayload)
    /\ UNCHANGED <<storage, now, stamped>>

(* The webhook handler sends the loop's text to the chat (the response_url *)
(* of a slash command, chat.postMessage for a mention) and ends; a failed  *)
(* delivery is logged.                                                     *)
Deliver(p) ==
    /\ UNCHANGED slackRequest
    /\ p \in Webs
    /\ pc[p] = "done"
    /\ DropLocals(p)
    /\ \E outcome \in DeliveryOutcomes :
         lastOp' = [Op(p, "deliver", 0, result[p], NoBody, NoPayload)
                      EXCEPT !.outcome = outcome]
    /\ UNCHANGED <<storage, now, stamped>>

(* handleChoreStateAPI: GET /api/chores, a request of its own. *)
ApiRead ==
    /\ UNCHANGED slackRequest
    /\ \A q \in Procs : ~Running(q)
    /\ LET r == HandleRead(storage, now)
       IN /\ storage' = r.storage
          /\ lastOp' = Op("api", "apiRead", r.status, "", r.body, NoPayload)
    /\ UNCHANGED <<now, pc, iteration, queue, result, usedTool, usedStore, finish,
                   cronState, cronNow, messages, wrote,
                   stamped>>

Next ==
    \/ Tick(MaxTime)
    \/ \E p \in Webs : StartInstruction(p, FALSE)
    \/ \E p \in Procs : ProviderResponds(p, MaxCalls, MaxTurns)
    \/ \E p \in Procs : ProviderFails(p)
    \/ \E p \in Procs : ToolStep(p)
    \/ \E p \in Crons : ReminderStart(p, FALSE)
    \/ \E p \in Crons : ReminderWriteBack(p)
    \/ \E p \in Crons : Forget(p)
    \/ \E p \in Webs : Deliver(p)
    \/ ApiRead

Spec == Init /\ [][Next]_vars

(* A reminder run and a webhook instruction in flight at the same time. *)
NextConc ==
    \/ Tick(ConcMaxTime)
    \/ \E p \in Webs : StartInstruction(p, TRUE)
    \/ \E p \in Procs : ProviderResponds(p, ConcMaxCalls, ConcMaxTurns)
    \/ \E p \in Procs : ProviderFails(p)
    \/ \E p \in Procs : ToolStep(p)
    \/ \E p \in Crons : ReminderStart(p, TRUE)
    \/ \E p \in Crons : ReminderWriteBack(p)
    \/ \E p \in Crons : Forget(p)
    \/ \E p \in Webs : Deliver(p)

ConcSpec == Init /\ [][NextConc]_vars

(* One webhook instruction at a time, its provider listing several tool    *)
(* calls in a response.                                                    *)
NextTurn ==
    \/ Tick(TurnMaxTime)
    \/ \E p \in Webs : StartInstruction(p, FALSE)
    \/ \E p \in Webs : ProviderResponds(p, TurnMaxCalls, TurnMaxTurns)
    \/ \E p \in Webs : ProviderFails(p)
    \/ \E p \in Webs : ToolStep(p)
    \/ \E p \in Webs : Deliver(p)

TurnSpec == Init /\ [][NextTurn]_vars

(* The store on its own: requests with arbitrary bodies reach /read and    *)
(* /write.                                                                 *)
WritePayloads ==
    {Payload(d, lu, ls) :
        d \in TextValues,
        lu \in {Stamp(0), NoStamp, NumStamp},
        ls \in {NoStamp, NullStamp, NumStamp} \cup {Stamp(t) : t \in Times}}
    \cup {Primitive("null"), Primitive("number")}

StoreRead ==
    /\ UNCHANGED slackRequest
    /\ LET r == HandleRead(storage, now)
       IN /\ storage' = r.storage
          /\ lastOp' = Op("client", "storeRead", r.status, "", r.body, NoPayload)
    /\ UNCHANGED <<now, pc, iteration, queue, result, usedTool, usedStore, finish,
                   cronState, cronNow, messages, wrote,
                   stamped>>

StoreWrite ==
    /\ UNCHANGED slackRequest
    /\ \E payload \in WritePayloads :
         LET w == HandleWrite(storage, payload, now)
         IN /\ storage' = w.storage
            /\ lastOp' = Op("client", "storeWrite", w.status, "", NoBody, payload)
    /\ UNCHANGED <<now, pc, iteration, queue, result, usedTool, usedStore, finish,
                   cronState, cronNow, messages, wrote,
                   stamped>>

NextStore == Tick(MaxTime) \/ StoreRead \/ StoreWrite

StoreSpec == Init /\ [][NextStore]_vars

(* Every provider call is answered or fails, and a tool call that was      *)
(* started comes back: the loop's awaits complete.                         *)
LoopFairness ==
    \A p \in Procs :
        /\ WF_vars(ProviderResponds(p, MaxCalls, maxIterations) \/ ProviderFails(p))
        /\ WF_vars(ToolStep(p))

(* The loop on its own: webhook instructions one after another, the clock  *)
(* standing still.                                                         *)
NextLoop ==
    \/ \E p \in Webs : StartInstruction(p, FALSE)
    \/ \E p \in Webs : ProviderResponds(p, MaxCalls, maxIterations)
    \/ \E p \in Webs : ProviderFails(p)
    \/ \E p \in Webs : ToolStep(p)
    \/ \E p \in Webs : Deliver(p)

LiveSpec == Init /\ [][NextLoop]_vars /\ LoopFairness

----------------------------------------------------------------------------
(* Claims *)

InLoop(p) == pc[p] \in {"request", "tools"}
Returned(p) == pc[p] \in {"writeback", "done"}

C1_Cap ==
    \A p \in Procs :
        /\ iteration[p] <= 5
        /\ pc[p] = "request" => iteration[p] < 5
        /\ (Returned(p) /\ iteration[p] = 5 /\ finish[p] = "tool_calls")
              => result[p] = GenericMessage

(* C1: whatever the provider answers, one invocation of the loop makes at  *)
(* most 5 provider round trips (iteration counts them) and then returns;   *)
(* when the 5th response is still tool_calls it returns the generic        *)
(* fallback text.                                                          *)
C1_IterationCap ==
    /\ []C1_Cap
    /\ \A p \in Procs : InLoop(p) ~> Returned(p)

(* C1 witness: a loop that returned the generic text after five responses  *)
(* asking for tools, the last ones having run.                             *)
C1_Witness ==
    \E p \in Webs :
        /\ pc[p] = "done" /\ iteration[p] = 5 /\ finish[p] = "tool_calls"
        /\ usedTool[p] /\ result[p] = GenericMessage
        /\ lastOp.proc = p /\ lastOp.op \in {"readState", "updateState"}

(* C2: when the first response of an invocation has finish reason stop,    *)
(* the loop returns at once: it runs no tool and sends no store request,   *)
(* and the step that takes the response leaves the whole storage (primary  *)
(* record and backups) as it was.                                          *)
C2_FirstStop ==
    /\ [](\A p \in Procs :
            (iteration[p] = 1 /\ finish[p] = "stop")
               => (Returned(p) /\ ~usedTool[p] /\ ~usedStore[p] /\ queue[p] = <<>>))
    /\ [][\A p \in Procs :
            (pc[p] = "request" /\ iteration[p] = 0 /\ iteration'[p] = 1
             /\ finish'[p] = "stop")
               => (storage' = storage /\ Returned(p)')]_vars

(* C2 witness: an instruction answered with stop on the first round trip   *)
(* has returned the assistant's text, with a record in the store.          *)
C2_Witness ==
    \E p \in Webs :
        /\ pc[p] = "done" /\ iteration[p] = 1 /\ finish[p] = "stop"
        /\ result[p] \in Contents \ {""}
        /\ Has(storage, PrimaryKey) /\ Has(storage, BackupKey(0))

StoredLastUpdated(st) == IF Has(st, PrimaryKey) THEN st[PrimaryKey].lastUpdated ELSE NoStamp
StoredLastSent(st) == IF Has(st, PrimaryKey) THEN st[PrimaryKey].lastSent ELSE NoStamp

(* C3 as claimed: every executed updateState leaves a stored lastUpdated   *)
(* strictly greater than the one stored before it.                         *)
C3_StrictlyGreater ==
    [][(lastOp'.op = "updateState" /\ lastOp'.outcome = "answered"
        /\ Has(storage, PrimaryKey))
          => StoredLastUpdated(storage').val > StoredLastUpdated(storage).val]_vars

(* C3, amended: an updateState whose request the store answers and whose   *)
(* description is text is accepted and                                     *)
(* leaves lastUpdated equal to the clock at the write, never smaller than  *)
(* before and greater when the clock has advanced since the stored value   *)
(* was set; an updateState whose description is missing or not text is     *)
(* rejected with 400 and leaves the storage, lastUpdated included, as it   *)
(* was.                                                                    *)
C3_Refreshed ==
    [][(lastOp'.op = "updateState" /\ lastOp'.outcome = "answered"
        /\ Has(storage, PrimaryKey))
          => IF lastOp'.payload.description.type = "string"
             THEN /\ lastOp'.status = 200
                  /\ StoredLastUpdated(storage').val = now
                  /\ StoredLastUpdated(storage').val >= StoredLastUpdated(storage).val
                  /\ (now > StoredLastUpdated(storage).val
                        => StoredLastUpdated(storage').val
                              > StoredLastUpdated(storage).val)
             ELSE /\ lastOp'.status = 400
                  /\ storage' = storage]_vars

(* C3 witness: an accepted updateState on the second day, on a record      *)
(* first written the day before.                                           *)
C3_Witness ==
    /\ lastOp.op = "updateState" /\ lastOp.status = 200
    /\ Has(storage, BackupKey(0))
    /\ StoredLastUpdated(storage).val = now /\ IsoDate(now) > 0

(* C4: a reminder run that finds the stored lastSent on the calendar date  *)
(* of the current time returns at once: no provider call, no write, the    *)
(* storage left exactly as it was.                                         *)
C4_ReminderNoOp ==
    [][\A p \in Crons :
          (/\ pc[p] = "idle" /\ pc'[p] # "idle"
           /\ StoredLastSent(storage).type = "string"
           /\ StoredLastSent(storage).val \div DayLen = now \div DayLen)
             => (/\ pc'[p] = "done"
                 /\ lastOp'.op = "reminderSkipped"
                 /\ iteration'[p] = 0
                 /\ storage' = storage)]_vars

(* C4 witness: a run skipped although lastSent is an earlier time of the   *)
(* same date.                                                              *)
C4_Witness ==
    \E p \in Crons :
        /\ pc[p] = "done" /\ lastOp.op = "reminderSkipped" /\ iteration[p] = 0
        /\ StoredLastSent(storage).type = "string"
        /\ StoredLastSent(storage).val < now

(* C5 as claimed: once a reminder run has stamped lastSent on a calendar   *)
(* date, every later reminder run on that date is a no-op.                 *)
C5_NoSecondReminder ==
    [][\A p \in Crons :
          (pc[p] = "idle" /\ pc'[p] # "idle" /\ (now \div DayLen) \in stamped)
             => (pc'[p] = "done" /\ lastOp'.op = "reminderSkipped")]_vars

(* C6 as claimed: no tool run by the loop changes the stored lastSent.     *)
C6_ToolsKeepLastSent ==
    [][lastOp'.op \in {"readState", "updateState", "createCalendarEvent"}
          => StoredLastSent(storage') = StoredLastSent(storage)]_vars

(* C7 as claimed: a description stored by another invocation while a       *)
(* reminder run is between its read and its write-back survives the        *)
(* write-back (the run's own loop having sent no store request, the        *)
(* write-back may change lastSent and lastUpdated only).                   *)
C7_NoLostUpdate ==
    [][\A p \in Crons :
          (pc[p] = "writeback" /\ pc'[p] = "done" /\ ~usedStore[p])
             => storage'[PrimaryKey].description = storage[PrimaryKey].description]_vars

Malformed(p) ==
    /\ p.kind = "object"
    /\ \/ p.description.type # "string"
       \/ p.lastUpdated.type # "string"
       \/ p.lastSent.type \notin {"undefined", "string", "null"}

C9_ReadIdempotent ==
    [][(lastOp'.op \in {"readState", "apiRead"} /\ lastOp'.outcome # "unavailable"
        /\ Has(storage, PrimaryKey))
          => (/\ storage' = storage
              /\ lastOp'.status = 200
              /\ lastOp'.body = storage[PrimaryKey])]_vars

(* C9 witness: readState returned a record written earlier, carrying a     *)
(* lastSent, at a later time than its lastUpdated.                         *)
C9_Witness ==
    /\ lastOp.op = "readState"
    /\ lastOp.body.lastSent.type = "string"
    /\ lastOp.body.lastUpdated.val < now
    /\ lastOp.body = storage[PrimaryKey]

ReadOps == {"readState", "apiRead", "reminderStart", "reminderSkipped"}

(* C10 as claimed: no read stores or changes a lastUpdated, the read that  *)
(* finds no record included.                                               *)
C10_ReaderNeverSets ==
    [][(lastOp'.op \in ReadOps /\ lastOp'.outcome # "unavailable")
          => StoredLastUpdated(storage') = StoredLastUpdated(storage)]_vars

(* C10, amended: a read the store answers leaves an existing record, and   *)
(* the whole storage, as it is;                                            *)
(* the read that finds no record stores the default record with            *)
(* lastUpdated set to the time of that read; the lastUpdated of an         *)
(* existing record is changed by accepted writes only.                     *)
C10_LazyInit ==
    [][/\ (lastOp'.op \in ReadOps /\ lastOp'.outcome # "unavailable")
          => IF Has(storage, PrimaryKey)
             THEN storage' = storage
             ELSE storage' = Put(storage, PrimaryKey,
                                 [description |-> Text(DefaultDescription),
                                  lastUpdated |-> Stamp(now),
                                  lastSent |-> NoStamp])
       /\ (Has(storage, PrimaryKey)
           /\ StoredLastUpdated(storage') # StoredLastUpdated(storage))
          => (lastOp'.op \in {"updateState", "reminderWrite"}
              /\ lastOp'.status = 200)]_vars

(* C10 witness: a read has created the default record, stamped with a      *)
(* time after the start.                                                   *)
C10_Witness ==
    /\ lastOp.op \in ReadOps /\ lastOp.outcome # "unavailable"
    /\ DOMAIN storage = {PrimaryKey}
    /\ storage[PrimaryKey].description = Text(DefaultDescription)
    /\ StoredLastUpdated(storage).val = now /\ now > 0

(* The step is invocation p running the next tool call of its response. *)
ToolStepOf(p) == pc[p] = "tools" /\ queue[p] # <<>> /\ queue'[p] = Tail(queue[p])

(* The call that step runs. *)
RunningCall(p) == Head(queue[p]).function

(* Where the loop stands after the tool calls of a response: the next      *)
(* provider request, or at the cap the return of the generic text.         *)
LoopGoesOn(p) ==
    \/ pc'[p] = "tools" /\ queue'[p] # <<>>
    \/ pc'[p] = "request" /\ queue'[p] = <<>> /\ iteration'[p] < 5
    \/ Returned(p)' /\ queue'[p] = <<>> /\ iteration'[p] = 5
                    /\ result'[p] = GenericMessage

(* C11 as claimed: after an accepted updateState of a description, the     *)
(* text of a readState quotes that description and names the lastUpdated   *)
(* that write stored, so that the stored value can be read off the text.   *)
C11_TextNamesLastUpdated ==
    [][\A p \in Procs :
          (ToolStepOf(p) /\ lastOp'.text = "state" /\ wrote[p] # NoText)
             => (/\ lastOp'.output.description = wrote[p]
                 /\ lastOp'.output.time * SecLen
                       = storage[PrimaryKey].lastUpdated.val)]_vars

(* C11, amended: a readState on an existing record, no write in between,   *)
(* returns text that quotes the stored description -- the one the          *)
(* invocation's last accepted updateState stored, if it made one -- and    *)
(* spells the stored lastUpdated as a date and time of day to the second:  *)
(* the milliseconds of the stored value are not in the text.               *)
C11_ReadYourWrites ==
    [][\A p \in Procs :
          (ToolStepOf(p) /\ lastOp'.text = "state" /\ Has(storage, PrimaryKey))
             => (/\ lastOp'.op = "readState"
                 /\ lastOp'.output.kind = "state"
                 /\ lastOp'.output.description = storage[PrimaryKey].description
                 /\ lastOp'.output.time
                       = storage[PrimaryKey].lastUpdated.val \div SecLen
                 /\ wrote[p] # NoText => lastOp'.output.description = wrote[p]
                 /\ storage' = storage)]_vars

(* C11 witness: readState quotes the description an updateState of the     *)
(* same instruction stored; the stored lastUpdated has milliseconds the    *)
(* text does not show.                                                     *)
C11_Witness ==
    \E p \in Webs :
        /\ lastOp.proc = p /\ lastOp.op = "readState"
        /\ wrote[p] = Text("d1")
        /\ lastOp.output.description = Text("d1")
        /\ storage[PrimaryKey].lastUpdated.val % SecLen # 0
        /\ lastOp.output.time * SecLen < storage[PrimaryKey].lastUpdated.val

(* The calendar collaborator, or the exchange before it, failed. *)
CalendarFailed(p) ==
    /\ RunningCall(p).json /\ RunningCall(p).name = "createCalendarEvent"
    /\ lastOp'.outcome # "created" \/ RunningCall(p).argsNull

(* C12: when the calendar collaborator or the credential exchange fails,   *)
(* createCalendarEvent returns a failure text and does not throw; the text *)
(* is pushed as the tool message of that call, and the loop goes on to a   *)
(* terminal response.                                                      *)
C12_CalendarFailureIsText ==
    /\ [][\A p \in Procs :
            (ToolStepOf(p) /\ CalendarFailed(p))
               => (/\ lastOp'.text = "calendarFailed"
                   /\ lastOp'.output.kind = "calendarFailed"
                   /\ messages'[p] = Append(messages[p],
                                            [role |-> "tool",
                                             tool_call_id |-> Head(queue[p]).id,
                                             tool_calls |-> <<>>])
                   /\ LoopGoesOn(p))]_vars
    /\ \A p \in Procs :
          (lastOp.proc = p /\ lastOp.text = "calendarFailed") ~> Returned(p)

(* C12 witness: the calendar API answered with an error, the failure text  *)
(* is the last message and the loop is about to ask the provider again.    *)
C12_Witness ==
    \E p \in Webs :
        /\ lastOp.proc = p /\ lastOp.op = "createCalendarEvent"
        /\ lastOp.outcome = "apiError" /\ lastOp.text = "calendarFailed"
        /\ pc[p] = "request"
        /\ messages[p][Len(messages[p])].role = "tool"

(* The names of the registered operations. *)
Registered == {"readState", "updateState", "createCalendarEvent"}

(* C13: a tool call whose name is not registered changes nothing in the    *)
(* store and makes no outbound request; an error text is pushed as the     *)
(* tool message of that call and the loop goes on: the next call, the next *)
(* provider round trip, or at the cap the generic text -- never the        *)
(* technical-difficulties text of an exception.                            *)
C13_UnknownToolIsText ==
    [][\A p \in Procs :
          (ToolStepOf(p) /\ RunningCall(p).json
           /\ RunningCall(p).name \notin Registered)
             => (/\ storage' = storage
                 /\ lastOp'.requests = <<>>
                 /\ lastOp'.output.kind = "error"
                 /\ messages'[p] = Append(messages[p],
                                          [role |-> "tool",
                                           tool_call_id |-> Head(queue[p]).id,
                                           tool_calls |-> <<>>])
                 /\ result'[p] # TechnicalMessage
                 /\ LoopGoesOn(p))]_vars

(* C13 witness: an unregistered deleteState was answered with the error    *)
(* text, a record being stored, and the loop is about to ask the provider  *)
(* again.                                                                  *)
C13_Witness ==
    \E p \in Webs :
        /\ lastOp.proc = p /\ lastOp.op = "deleteState"
        /\ lastOp.output.kind = "error"
        /\ pc[p] = "request" /\ Has(storage, PrimaryKey)
        /\ messages[p][Len(messages[p])].role = "tool"

(* The tool call of the step failed: its arguments do not decode, its name *)
(* is unknown, the store is unavailable or answers with an error, or the   *)
(* calendar call fails.                                                    *)
ToolFailed(p) ==
    \/ ~RunningCall(p).json
    \/ RunningCall(p).name \notin Registered
    \/ lastOp'.outcome = "unavailable"
    \/ lastOp'.op = "updateState" /\ lastOp'.status # 200
    \/ CalendarFailed(p)

(* C14 as claimed: every failure inside a tool becomes an error text for   *)
(* that call, and the loop goes on.                                        *)
C14_FailureIsErrorText ==
    [][\A p \in Procs :
          (ToolStepOf(p) /\ ToolFailed(p))
             => (/\ lastOp'.output.kind \in {"error", "calendarFailed"}
                 /\ result'[p] # TechnicalMessage
                 /\ LoopGoesOn(p))]_vars

(* The credential exchange of the step got an access token. *)
ExchangeSucceeded == lastOp'.outcome \in {"created", "apiError"}

C16_NoRollback ==
    [][\A p \in Procs :
          (\/ ToolStepOf(p) /\ CalendarFailed(p)
           \/ /\ pc[p] = "done" /\ lastOp'.proc = p /\ lastOp'.op = "deliver"
              /\ lastOp'.outcome = "deliveryFailed")
             => (/\ storage' = storage
                 /\ wrote[p] # NoText
                       => (/\ Has(storage', PrimaryKey)
                           /\ storage'[PrimaryKey].description = wrote[p]))]_vars

(* C16 witness: the calendar call failed after an updateState of the same  *)
(* instruction, whose description is the stored one.                       *)
C16_Witness ==
    \E p \in Webs :
        /\ lastOp.proc = p /\ lastOp.op = "createCalendarEvent"
        /\ lastOp.text = "calendarFailed"
        /\ wrote[p] = Text("d2")
        /\ storage[PrimaryKey].description = Text("d2")

(* The step is invocation p taking a provider response. *)
RespondStepOf(p) ==
    /\ pc[p] = "request" /\ iteration'[p] = iteration[p] + 1
    /\ lastOp'.op = "respond" /\ lastOp'.proc = p

(* The step runs no tool and leaves store and conversation alone. *)
NoToolRun(p) ==
    /\ queue'[p] = <<>> /\ usedTool' = usedTool /\ usedStore' = usedStore
    /\ storage' = storage /\ messages' = messages

(* C17: on finish reason stop the loop returns at once: the assistant's    *)
(* text as it is when it is not empty, the fixed fallback exactly when it  *)
(* is empty or absent; no tool is run for that response.                   *)
C17_StopReturnsText ==
    [][\A p \in Procs :
          (RespondStepOf(p) /\ lastOp'.text = "stop")
             => (/\ Returned(p)'
                 /\ result'[p] = IF lastOp'.output.description.val # ""
                                   THEN lastOp'.output.description.val
                                   ELSE StopFallback
                 /\ result'[p] = StopFallback
                       <=> lastOp'.output.description.val = ""
                 /\ NoToolRun(p))]_vars

(* C17 witness: after a turn of tool calls the provider stopped with a     *)
(* text, which is what the loop returned.                                  *)
C17_Witness ==
    \E p \in Webs :
        /\ pc[p] = "done" /\ finish[p] = "stop" /\ iteration[p] = 2
        /\ usedTool[p]
        /\ lastOp.op = "respond"
        /\ result[p] = "Alice has the trash this week."

(* C18 as claimed: every response that is neither stop nor a tool_calls    *)
(* response carrying invocations ends the loop: length with the fixed      *)
(* restate-your-request message, anything else with the generic message,   *)
(* no tool run and no further provider call.                               *)
C18_OtherIsTerminal ==
    [][\A p \in Procs :
          (/\ RespondStepOf(p) /\ lastOp'.text \notin {"stop", "threw"}
           /\ ~(lastOp'.text = "tool_calls" /\ lastOp'.calls > 0))
             => (/\ Returned(p)'
                 /\ result'[p] = IF lastOp'.text = "length" THEN LengthMessage
                                   ELSE GenericMessage
                 /\ NoToolRun(p))]_vars

(* C18, amended: length ends the loop with the fixed restate-your-request  *)
(* message; a finish reason other than stop, length and tool_calls, and    *)
(* tool_calls without a list of invocations, end it with the generic       *)
(* message; in both cases no tool is run and no further provider call is   *)
(* made.  tool_calls with an empty list does not end the loop: the         *)
(* assistant message is pushed, no tool is run, and the next provider      *)
(* request follows (at the cap, the generic message).                      *)
C18_LengthAndOther ==
    [][\A p \in Procs :
          (RespondStepOf(p) /\ lastOp'.text \notin {"stop", "threw"})
             => IF lastOp'.text = "tool_calls" /\ lastOp'.calls >= 0
                THEN /\ Len(messages'[p]) = Len(messages[p]) + 1
                     /\ messages'[p][Len(messages'[p])].role = "assistant"
                     /\ usedTool' = usedTool /\ storage' = storage
                     /\ IF lastOp'.calls > 0
                        THEN pc'[p] = "tools" /\ Len(queue'[p]) = lastOp'.calls
                        ELSE LoopGoesOn(p) /\ ~(pc'[p] = "tools")
                ELSE /\ Returned(p)'
                     /\ result'[p] = IF lastOp'.text = "length" THEN LengthMessage
                                       ELSE GenericMessage
                     /\ NoToolRun(p)]_vars

(* C18 witness: a first response with finish reason tool_calls and no list *)
(* of invocations ended the loop with the generic message.                 *)
C18_Witness ==
    \E p \in Webs :
        /\ pc[p] = "done" /\ iteration[p] = 1
        /\ lastOp.op = "respond" /\ lastOp.text = "tool_calls" /\ lastOp.calls = -1
        /\ result[p] = GenericMessage /\ messages[p] = InitialMessages

(* The tool message that answers the call with this id. *)
ToolAnswer(id) == [role |-> "tool", tool_call_id |-> id, tool_calls |-> <<>>]

(* A conversation as the protocol wants it: [system, user], then for each  *)
(* tool_calls response the assistant message followed by one tool message  *)
(* per call it lists, in that order and with that call's id.  Only while   *)
(* the calls of the last response are being run (open) may its tool        *)
(* messages be fewer than its calls, by the number still pending.          *)
ConversationOk(msgs, pending, open) ==
    /\ Len(msgs) >= 2
    /\ msgs[1] = [role |-> "system", tool_call_id |-> NoId, tool_calls |-> <<>>]
    /\ msgs[2] = [role |-> "user", tool_call_id |-> NoId, tool_calls |-> <<>>]
    /\ \A i \in 3..Len(msgs) :
         IF msgs[i].role = "assistant"
         THEN \A k \in 1..Len(msgs[i].tool_calls) :
                 IF i + k <= Len(msgs)
                 THEN msgs[i + k] = ToolAnswer(msgs[i].tool_calls[k])
                 ELSE open /\ Len(msgs) - i + pending = Len(msgs[i].tool_calls)
         ELSE /\ msgs[i].role = "tool"
              /\ \E a \in 3..(i - 1) :
                    /\ msgs[a].role = "assistant"
                    /\ i - a <= Len(msgs[a].tool_calls)
    /\ open => \E a \in 3..Len(msgs) :
                  /\ msgs[a].role = "assistant"
                  /\ Len(msgs) - a + pending = Len(msgs[a].tool_calls)
                  /\ pending > 0

(* C19: the conversation starts as exactly [system, user] and only grows   *)
(* at its end; each tool_calls response adds the assistant message and     *)
(* then, call by call, one tool message per listed call, in the listed     *)
(* order and with that call's id, also when the call failed; all of them   *)
(* are there when the next provider request is made.                       *)
C19_ConversationProtocol ==
    /\ [](\A p \in Procs :
            messages[p] # <<>>
               => ConversationOk(messages[p], Len(queue[p]), pc[p] = "tools"))
    /\ [][\A p \in Procs :
            /\ (messages[p] = <<>> /\ messages'[p] # <<>>)
                  => messages'[p] = <<[role |-> "system", tool_call_id |-> NoId,
                                       tool_calls |-> <<>>],
                                      [role |-> "user", tool_call_id |-> NoId,
                                       tool_calls |-> <<>>]>>
            /\ (messages[p] # <<>> /\ messages'[p] # messages[p] /\ pc'[p] # "idle")
                  => (/\ Len(messages'[p]) = Len(messages[p]) + 1
                      /\ SubSeq(messages'[p], 1, Len(messages[p])) = messages[p])
            /\ ToolStepOf(p)
                  => messages'[p] = Append(messages[p], ToolAnswer(Head(queue[p]).id))
            /\ RespondStepOf(p) => ConversationOk(messages[p], 0, FALSE)]_vars

(* C19 witness: a response listed two calls; both tool messages are in the *)
(* conversation in the listed order, the second one for a call that        *)
(* failed, and the next provider request is due.                           *)
C19_Witness ==
    \E p \in Webs :
        /\ pc[p] = "request" /\ Len(messages[p]) = 5
        /\ messages[p][3].role = "assistant"
        /\ messages[p][3].tool_calls = <<CallId(1, 1), CallId(1, 2)>>
        /\ messages[p][4] = ToolAnswer(CallId(1, 1))
        /\ messages[p][5] = ToolAnswer(CallId(1, 2))
        /\ lastOp.output.kind = "error"

(* The number of calls of the current response already run. *)
CallsRun(p) ==
    LET msgs == messages[p]
        a == CHOOSE i \in 1..Len(msgs) :
                /\ msgs[i].role = "assistant"
                /\ \A j \in (i + 1)..Len(msgs) : msgs[j].role = "tool"
    IN Len(msgs) - a

(* C20: the calls of a response are run one at a time in the order the     *)
(* provider listed them -- the k-th to run is the k-th listed -- so a      *)
(* later call sees what an earlier one did: a readState after an accepted  *)
(* updateState returns the description that updateState stored.            *)
C20_InListedOrder ==
    [][\A p \in Procs :
          ToolStepOf(p)
             => (/\ Head(queue[p]).id = <<iteration[p], CallsRun(p) + 1>>
                 /\ \A k \in 1..Len(queue[p]) :
                       queue[p][k].id = <<iteration[p], CallsRun(p) + k>>
                 /\ (lastOp'.text = "state" /\ wrote[p] # NoText)
                       => lastOp'.output.description = wrote[p])]_vars

(* C20 witness: the first response listed updateState, then readState; the *)
(* text readState returned quotes the description just stored.             *)
C20_Witness ==
    \E p \in Webs :
        /\ iteration[p] = 1 /\ Len(messages[p]) = 5
        /\ lastOp.proc = p /\ lastOp.op = "readState"
        /\ wrote[p] = Text("d1")
        /\ lastOp.output.description = Text("d1")
        /\ messages[p][3].tool_calls = <<CallId(1, 1), CallId(1, 2)>>

----------------------------------------------------------------------------
(* The reminder trigger on its own: cron runs one after another, every     *)
(* await of a run completing (the provider answers or fails, a started     *)
(* tool call comes back, the write request is sent).                       *)
NextRemind ==
    \/ Tick(MaxTime)
    \/ \E p \in Crons : ReminderStart(p, FALSE)
    \/ \E p \in Crons : ProviderResponds(p, MaxCalls, MaxTurns)
    \/ \E p \in Crons : ProviderFails(p)
    \/ \E p \in Crons : ToolStep(p)
    \/ \E p \in Crons : ReminderWriteBack(p)
    \/ \E p \in Crons : Forget(p)

RemindFairness ==
    \A p \in Crons :
        /\ WF_vars(ProviderResponds(p, MaxCalls, MaxTurns) \/ ProviderFails(p))
        /\ WF_vars(ToolStep(p))
        /\ WF_vars(ReminderWriteBack(p))

RemindSpec == Init /\ [][NextRemind]_vars /\ RemindFairness

(* The texts processWithAgenticLoop can return. *)
LoopTexts ==
    (Contents \ {""}) \cup {StopFallback, LengthMessage, GenericMessage,
                            TechnicalMessage}

(* One step of a reminder run p: the loop is entered only by the run's     *)
(* start, its return leads to the write-back and nowhere else, and the     *)
(* write-back sends {...state, lastSent: now} of this run, which the store *)
(* accepts.                                                                *)
C21_RunStep(p) ==
    /\ (~InLoop(p) /\ InLoop(p)') =>
          /\ pc[p] = "idle"
          /\ lastOp'.op = "reminderStart"
          /\ ~SentToday(cronState'[p], cronNow'[p])
    /\ (InLoop(p) /\ ~InLoop(p)') =>
          /\ pc'[p] = "writeback"
          /\ result'[p] \in LoopTexts
    /\ (pc[p] = "writeback" /\ pc'[p] # "writeback") =>
          /\ pc'[p] = "done"
          /\ lastOp'.op = "reminderWrite" /\ lastOp'.proc = p
          /\ lastOp'.status = 200
          /\ lastOp'.payload.description = cronState[p].description
          /\ lastOp'.payload.lastSent = Stamp(cronNow[p])
          /\ storage'[PrimaryKey].lastSent = Stamp(cronNow[p])
    /\ (pc[p] # "writeback" /\ lastOp'.proc = p) => lastOp'.op # "reminderWrite"

(* C21: a reminder run that is not a no-op enters the orchestration loop   *)
(* exactly once and then writes the state back with lastSent set to the    *)
(* timestamp the run took after its read, whatever text the loop returned. *)
C21_StampsAfterLoop ==
    /\ [][\A p \in Crons : C21_RunStep(p)]_vars
    /\ \A p \in Crons : InLoop(p) ~> (lastOp.op = "reminderWrite" /\ lastOp.proc = p)

(* A run whose loop ended with the provider-failure text has written       *)
(* lastSent all the same, on a day after an earlier run's stamp.           *)
C21_Witness ==
    /\ lastOp.op = "reminderWrite"
    /\ result["cron"] = TechnicalMessage
    /\ cronNow["cron"] > 0
    /\ storage[PrimaryKey].lastSent = Stamp(cronNow["cron"])

(* C22: a reminder run that is not a no-op hands the text the loop         *)
(* returned to the outbound chat-message delivery call before it ends.     *)
(* As claimed: the step that ends such a run is, or follows, a delivery of *)
(* that text.  sendScheduledReminder only logs the text.                   *)
C22_ReminderDelivered ==
    [][\A p \in Crons :
          (pc[p] = "done" /\ pc'[p] = "idle" /\ result[p] \in LoopTexts)
             => /\ lastOp'.op = "deliver" \/ lastOp.op = "deliver"
                /\ lastOp'.text = result[p] \/ lastOp.text = result[p]]_vars

(* The invocation p stands where the catch around the loop left it. *)
C23_Caught(p) ==
    finish[p] = "threw" =>
        /\ Returned(p)
        /\ result[p] = TechnicalMessage
        /\ lastOp.proc = p =>
              lastOp.op \in {"respond", "reminderWrite"}

(* After the failed provider call the invocation makes no provider call    *)
(* and runs no tool: its pass counter, its conversation and its pending    *)
(* calls stay as they were until its caller is done with the text.         *)
C23_NothingFurther(p) ==
    (finish[p] = "threw" /\ finish'[p] = "threw") =>
        /\ iteration'[p] = iteration[p]
        /\ messages'[p] = messages[p]
        /\ queue'[p] = queue[p]
        /\ usedTool'[p] = usedTool[p]
        /\ result'[p] = result[p]
        /\ lastOp'.proc = p => lastOp'.op = "reminderWrite"

(* C23: when a provider call fails in any pass, processWithAgenticLoop     *)
(* returns the technical-difficulties text (it does not throw) and makes   *)
(* no further provider call and no tool invocation.                        *)
C23_ProviderFailureIsText ==
    /\ [](\A p \in Procs : C23_Caught(p))
    /\ [][\A p \in Procs : C23_NothingFurther(p)]_vars

(* The provider call of a later pass failed, after tools had run. *)
C23_Witness ==
    \E p \in Procs :
        /\ lastOp.op = "respond" /\ lastOp.text = "threw" /\ lastOp.proc = p
        /\ iteration[p] >= 2
        /\ usedTool[p]
        /\ result[p] = TechnicalMessage

----------------------------------------------------------------------------
(* handleSlackWebhook: a request arrives at /slack.  One that is not a     *)
(* POST, fails verifySlackSignature or cannot be parsed is answered at     *)
(* once; so are the handshake and the events nothing is done for; a slash  *)
(* command or a mention enters the loop.                                   *)
HandleSlackWebhook(p) ==
    /\ p \in Webs
    /\ pc[p] = "idle"
    /\ \A q \in Procs \ {p} : ~Running(q)
    /\ \E req \in SlackRequests :
         IF IsInstruction(req)
         THEN /\ pc' = [pc EXCEPT ![p] = "request"]
              /\ result' = [result EXCEPT ![p] = ""]
              /\ EnterLoop(p)
              /\ messages' = [messages EXCEPT ![p] = InitialMessages]
              /\ wrote' = [wrote EXCEPT ![p] = NoText]
              /\ slackRequest' = [slackRequest EXCEPT ![p] = req]
              /\ lastOp' = [(IF req.body = "command"
                              THEN Op(p, "start", 200, ImmediateResponse, NoBody,
                                      NoPayload)
                              ELSE Op(p, "start", 0, "", NoBody, NoPayload))
                              EXCEPT !.request = req]
              /\ UNCHANGED <<storage, now, cronState, cronNow, stamped>>
         ELSE /\ lastOp' = [Op(p, "webhook", WebhookStatus(req), "", NoBody, NoPayload)
                              EXCEPT !.request = req]
              /\ UNCHANGED <<storage, now, pc, iteration, queue, result, usedTool,
                             usedStore, finish, cronState, cronNow, messages,
                             wrote, stamped, slackRequest>>

(* What becomes of one outbound post: answered ok, answered with an error  *)
(* status, or the fetch threw.                                             *)
PostOutcomes == {"ok", "notOk", "threw"}

(* Mutant: the error reply is also posted when the reply was answered with *)
(* an error status.                                                        *)
CommandPostsRetrying(reply) ==
    IF reply # "ok" THEN <<"response_url", "response_url">> ELSE <<"response_url">>

(* The posts of handleChoresCommand's background task: the reply, and the  *)
(* error reply of the catch block when posting the reply threw.            *)
CommandPosts(reply) ==
    IF reply = "threw" THEN <<"response_url", "response_url">> ELSE <<"response_url">>

(* handleChoresCommand's background task after processCommand returned:    *)
(* the reply is posted to the response_url; an error answer is logged; a   *)
(* throw leads to the catch block, whose own post is in a try/catch.       *)
RespondToCommand(p) ==
    /\ p \in Webs
    /\ pc[p] = "done"
    /\ slackRequest[p].body = "command"
    /\ DropLocals(p)
    /\ slackRequest' = [slackRequest EXCEPT ![p] = NoRequest]
    /\ \E reply \in PostOutcomes, errorReply \in PostOutcomes :
         /\ reply # "threw" => errorReply = "ok"
         /\ lastOp' = [Op(p, "respondToCommand", 0, result[p], NoBody, NoPayload)
                         EXCEPT !.requests = CommandPosts(reply),
                                !.outcome = reply,
                                !.request = slackRequest[p],
                                !.calls = IF Len(CommandPosts(reply)) = 2
                                          THEN (CASE errorReply = "ok" -> 0
                                                  [] errorReply = "notOk" -> 1
                                                  [] OTHER -> 2)
                                          ELSE -1]
    /\ UNCHANGED <<storage, now, stamped>>

(* Mutant: a failed delivery is answered with 500. *)
EventStatusPropagating(outcome) == IF outcome = "ok" THEN 200 ELSE 500

(* The status handleSlackEvent answers with after its try/catch. *)
EventStatus(outcome) == 200

(* handleSlackEvent after processMessage returned: one sendSlackMessage,   *)
(* which throws on an error answer; the catch logs; the answer is 200 OK.  *)
RespondToEvent(p) ==
    /\ p \in Webs
    /\ pc[p] = "done"
    /\ slackRequest[p].body = "message"
    /\ DropLocals(p)
    /\ slackRequest' = [slackRequest EXCEPT ![p] = NoRequest]
    /\ \E outcome \in PostOutcomes :
         lastOp' = [Op(p, "respondToEvent", EventStatus(outcome), result[p], NoBody,
                       NoPayload)
                      EXCEPT !.requests = <<"chat.postMessage">>,
                             !.outcome = outcome,
                             !.request = slackRequest[p]]
    /\ UNCHANGED <<storage, now, stamped>>

NextWebhook ==
    \/ Tick(TurnMaxTime)
    \/ \E p \in Webs : HandleSlackWebhook(p)
    \/ \E p \in Webs : ProviderResponds(p, MaxCalls, MaxTurns)
    \/ \E p \in Webs : ProviderFails(p)
    \/ \E p \in Webs : ToolStep(p)
    \/ \E p \in Webs : RespondToCommand(p)
    \/ \E p \in Webs : RespondToEvent(p)

(* The awaits of a webhook invocation complete. *)
WebhookFairness ==
    \A p \in Webs :
        /\ WF_vars(ProviderResponds(p, MaxCalls, MaxTurns) \/ ProviderFails(p))
        /\ WF_vars(ToolStep(p))
        /\ WF_vars(RespondToCommand(p))
        /\ WF_vars(RespondToEvent(p))

WebhookSpec == Init /\ [][NextWebhook]_vars /\ WebhookFairness

(* The request's signature header is missing, or is not the HMAC of this   *)
(* request's timestamp and body under the signing secret.                  *)
C24_BadSignature(req) ==
    \/ req.signature = NoSignature
    \/ req.signature # <<"v0", SigningSecret, req.timestamp, req.body>>

(* The step handled a webhook request and did nothing but answer it. *)
C24_NothingDone ==
    /\ lastOp'.op = "webhook"
    /\ lastOp'.requests = <<>>
    /\ UNCHANGED <<storage, pc, iteration, queue, result, usedTool, usedStore,
                   finish, messages, wrote, slackRequest>>

(* C24, as claimed: every webhook request with a missing or invalid        *)
(* signature is answered 401 with no store access, provider call or        *)
(* outbound message.  A request that is not a POST is answered 405 before  *)
(* its signature is looked at.                                             *)
C24_Always401 ==
    [][(lastOp'.request # NoRequest /\ C24_BadSignature(lastOp'.request))
          => (lastOp'.status = 401 /\ C24_NothingDone)]_vars

(* C24: a webhook request with a missing or invalid signature is rejected  *)
(* before any state access: 405 when it is not a POST, else 401; the step  *)
(* reads and writes no store record, starts no loop and sends nothing.     *)
C24_RejectedBeforeAccess ==
    [][(lastOp'.request # NoRequest /\ C24_BadSignature(lastOp'.request))
          => /\ lastOp'.status = IF lastOp'.request.method = "POST"
                                 THEN 401 ELSE 405
             /\ C24_NothingDone]_vars

(* A POST signed with another key over a recent timestamp was answered     *)
(* 401 while the store holds a record that stayed as it was.               *)
C24_Witness ==
    /\ lastOp.op = "webhook" /\ lastOp.status = 401
    /\ lastOp.request.method = "POST"
    /\ lastOp.request.timestamp = "recent"
    /\ lastOp.request.signature = Hmac("guess", "recent", lastOp.request.body)
    /\ lastOp.request.body = "command"
    /\ Has(storage, PrimaryKey)
    /\ pc["web"] = "idle"

----------------------------------------------------------------------------
(* The primary record exists with a text description and a text            *)
(* lastUpdated.                                                            *)
C25_Initialized(st) ==
    /\ Has(st, PrimaryKey)
    /\ st[PrimaryKey].description.type = "string"
    /\ st[PrimaryKey].lastUpdated.type = "string"

(* The step sent the store a read that was answered. *)
C25_ReadServed ==
    \/ lastOp'.op \in {"apiRead", "reminderStart", "reminderSkipped"}
    \/ lastOp'.op = "readState" /\ lastOp'.outcome = "answered"

(* The step sent the store a write that was answered, accepted or not. *)
C25_WriteAnswered ==
    \/ lastOp'.op = "reminderWrite"
    \/ /\ lastOp'.op = "updateState" /\ lastOp'.outcome = "answered"
       /\ lastOp'.requests # <<>>

(* C25, as claimed: after any read or write the store has answered, the    *)
(* primary record exists with a text description and a text lastUpdated.   *)
(* A write the store rejects as the first request creates nothing.         *)
C25_AfterAnyRequest ==
    [][(C25_ReadServed \/ C25_WriteAnswered) => C25_Initialized(storage')]_vars

(* C25: once the store has answered a read or accepted a write, the        *)
(* primary record exists with a text description and a text lastUpdated,   *)
(* and stays so through reads, updateState with any arguments and reminder *)
(* runs; a read that finds no record creates one with the placeholder      *)
(* description.  A rejected write leaves a missing record missing.         *)
C25_AlwaysInitialized ==
    /\ [](Has(storage, PrimaryKey) => C25_Initialized(storage))
    /\ [][C25_Initialized(storage) => C25_Initialized(storage')]_vars
    /\ [][(C25_ReadServed \/ (C25_WriteAnswered /\ lastOp'.status = 200))
             => C25_Initialized(storage')]_vars
    /\ [][(C25_ReadServed /\ ~Has(storage, PrimaryKey))
             => storage'[PrimaryKey].description = Text(DefaultDescription)]_vars
    /\ [][(C25_WriteAnswered /\ lastOp'.status # 200) => storage' = storage]_vars

(* An updateState whose description is a number was rejected, and the      *)
(* record an earlier read created still carries the placeholder.           *)
C25_Witness ==
    /\ lastOp.op = "updateState" /\ lastOp.status = 400
    /\ lastOp.payload.description = NumText
    /\ C25_Initialized(storage)
    /\ storage[PrimaryKey].description = Text(DefaultDescription)

----------------------------------------------------------------------------
(* The store with its clock: handleWrite reads the clock twice, for the    *)
(* stamp (line 49) and, after the first put, for the backup key (line 55); *)
(* the clock may have advanced in between.                                 *)
ManualBackupKey(t) == <<"manual_backup", t>>

(* Mutant: the backup copy is the payload as the caller sent it. *)
HandleWriteSpanningCallerCopy(st, p, t, t2) ==
    IF ValidateThrows(p)
    THEN [status |-> 0, storage |-> st]
    ELSE IF ~ValidateState(p)
    THEN [status |-> 400, storage |-> st]
    ELSE LET newState == [description |-> p.description,
                          lastUpdated |-> Stamp(t),
                          lastSent |-> p.lastSent]
             sent == [description |-> p.description,
                      lastUpdated |-> p.lastUpdated,
                      lastSent |-> p.lastSent]
         IN [status |-> 200,
             storage |-> Put(Put(st, PrimaryKey, newState), BackupKey(t2), sent)]

(* StateDO.handleWrite, the stamp taken at t and the backup date at t2. *)
HandleWriteSpanning(st, p, t, t2) ==
    IF ValidateThrows(p)
    THEN [status |-> 0, storage |-> st]
    ELSE IF ~ValidateState(p)
    THEN [status |-> 400, storage |-> st]
    ELSE LET newState == [description |-> p.description,
                          lastUpdated |-> Stamp(t),
                          lastSent |-> p.lastSent]
         IN [status |-> 200,
             storage |-> Put(Put(st, PrimaryKey, newState), BackupKey(t2), newState)]

(* StateDO.handleBackup: POST /backup copies the record, created if        *)
(* missing, under a key made of the current timestamp.                     *)
HandleBackup(st, t) ==
    [status |-> 200,
     storage |-> Put(GetState(st, t).storage, ManualBackupKey(t),
                     GetState(st, t).state)]

(* Bodies of POST /write in this specification: the caller's lastUpdated   *)
(* is an old or a future time, the description text or a number.           *)
BackupPayloads ==
    {Payload(d, lu, ls) :
        d \in {Text("d1"), Text("d2"), NumText},
        lu \in {Stamp(0), Stamp(MaxTime)},
        ls \in {NoStamp, Stamp(0)}}

StoreWriteSpanning ==
    /\ UNCHANGED slackRequest
    /\ \E payload \in BackupPayloads, t2 \in {now, now + 1} :
         /\ t2 <= MaxTime
         /\ LET w == HandleWriteSpanning(storage, payload, now, t2)
            IN /\ storage' = w.storage
               /\ now' = t2
               /\ lastOp' = Op("client", "storeWrite", w.status, "", NoBody, payload)
    /\ UNCHANGED <<pc, iteration, queue, result, usedTool, usedStore, finish,
                   cronState, cronNow, messages, wrote, stamped>>

StoreBackup ==
    /\ UNCHANGED slackRequest
    /\ LET b == HandleBackup(storage, now)
       IN /\ storage' = b.storage
          /\ lastOp' = Op("client", "storeBackup", b.status, "", NoBody, NoPayload)
    /\ UNCHANGED <<now, pc, iteration, queue, result, usedTool, usedStore, finish,
                   cronState, cronNow, messages, wrote, stamped>>

NextBackup == Tick(MaxTime) \/ StoreRead \/ StoreWriteSpanning \/ StoreBackup

BackupSpec == Init /\ [][NextBackup]_vars

(* C26: an accepted write stores the payload with lastUpdated replaced by  *)
(* the store's clock, whatever the caller sent, under the primary key, and *)
(* the identical record under the backup key of the current date: right    *)
(* after the write the backup of the day equals the primary record.        *)
C26_StampedAndBackedUp ==
    [][(lastOp'.op = "storeWrite" /\ lastOp'.status = 200)
          => /\ storage'[PrimaryKey] =
                   [description |-> lastOp'.payload.description,
                    lastUpdated |-> Stamp(now),
                    lastSent |-> lastOp'.payload.lastSent]
             /\ Has(storage', <<"backup", now' \div DayLen>>)
             /\ storage'[<<"backup", now' \div DayLen>>] = storage'[PrimaryKey]]_vars

(* A write that began on one day and ended on the next, sent with a future *)
(* lastUpdated: the record carries the earlier day's stamp and equals the  *)
(* backup of the day the write ended on.                                   *)
C26_Witness ==
    /\ lastOp.op = "storeWrite" /\ lastOp.status = 200
    /\ lastOp.payload.lastUpdated = Stamp(MaxTime)
    /\ storage[PrimaryKey].lastUpdated.val \div DayLen < now \div DayLen
    /\ storage[PrimaryKey].lastUpdated.val < MaxTime
    /\ storage[BackupKey(now)] = storage[PrimaryKey]

----------------------------------------------------------------------------
(* C27: the clock never going backwards, no step lowers the stored         *)
(* lastUpdated, whether it reads, runs updateState or belongs to a         *)
(* reminder run; and every accepted write, the reminder's write-back       *)
(* included, leaves lastUpdated equal to the store's clock at that write.  *)
C27_MonotoneLastUpdated ==
    /\ [][now' >= now]_vars
    /\ [][StoredLastUpdated(storage').val >= StoredLastUpdated(storage).val]_vars
    /\ [][(Has(storage, PrimaryKey) /\ storage'[PrimaryKey] # storage[PrimaryKey])
             => (/\ lastOp'.op \in {"updateState", "reminderWrite"}
                 /\ lastOp'.status = 200)]_vars
    /\ [][(lastOp'.op \in {"updateState", "reminderWrite"} /\ lastOp'.status = 200)
             => StoredLastUpdated(storage') = Stamp(now)]_vars

(* A write-back that sent the lastUpdated it had read the day before, over *)
(* a record an updateState of the same run had stamped since, left the     *)
(* clock's time in the record.                                             *)
C27_Witness ==
    /\ lastOp.op = "reminderWrite" /\ lastOp.status = 200
    /\ lastOp.payload.lastUpdated.val < now
    /\ wrote["cron"] # NoText
    /\ StoredLastUpdated(storage) = Stamp(now)
    /\ now \div DayLen > lastOp.payload.lastUpdated.val \div DayLen

----------------------------------------------------------------------------
(* C28: backups only accumulate.  No step removes a key from the storage;  *)
(* a write touches nothing but the primary record and the backup of the    *)
(* current date; a manual backup touches nothing but the primary record    *)
(* (when it was missing) and its own key; and the backup of a date before  *)
(* the current one is never changed again.                                 *)
C28_BackupsAccumulate ==
    /\ [][\A k \in DOMAIN storage : k \in DOMAIN storage']_vars
    /\ [][lastOp'.op = "storeWrite"
             => \A k \in DOMAIN storage' :
                   k \notin {<<"choreState", 0>>, <<"backup", now' \div DayLen>>}
                      => (k \in DOMAIN storage /\ storage'[k] = storage[k])]_vars
    /\ [][lastOp'.op = "storeBackup"
             => \A k \in DOMAIN storage :
                   (k # <<"manual_backup", now>>) => storage'[k] = storage[k]]_vars
    /\ [][\A d \in 0..MaxTime :
             (d < now \div DayLen /\ <<"backup", d>> \in DOMAIN storage)
                => storage'[<<"backup", d>>] = storage[<<"backup", d>>]]_vars

(* An accepted write on the second day, the store holding the first day's  *)
(* backup with other content and a manual backup.                          *)
C28_Witness ==
    /\ lastOp.op = "storeWrite" /\ lastOp.status = 200
    /\ now \div DayLen = 1
    /\ Has(storage, <<"backup", 0>>) /\ Has(storage, <<"backup", 1>>)
    /\ storage[<<"backup", 0>>].description # storage[PrimaryKey].description
    /\ \E t \in Times : Has(storage, ManualBackupKey(t))

----------------------------------------------------------------------------
(* The names runTool's switch sends to an implementation: those for which  *)
(* a call with well-formed arguments does not end in the default branch.   *)
C29_Dispatched ==
    {n \in {c.name : c \in ToolCalls} :
        \E o \in OutcomesFor(Call(n, TRUE, Text("d1"))) :
            RunTool(EmptyStorage, Call(n, TRUE, Text("d1")), 0, o)
                # ToolThrew(EmptyStorage, <<>>)}

(* C29: the tool registry is static.  The provider request of every pass,  *)
(* answered or failed, carries the same three operations readState,        *)
(* updateState and createCalendarEvent, and the names runTool dispatches   *)
(* to an implementation are exactly these three.                           *)
C29_StaticRegistry ==
    /\ lastOp.op = "respond"
          => lastOp.tools = {"readState", "updateState", "createCalendarEvent"}
    /\ C29_Dispatched = {"readState", "updateState", "createCalendarEvent"}

(* The request of the fifth pass, after tools had run in earlier passes,   *)
(* carried three operations.                                               *)
C29_Witness ==
    /\ lastOp.op = "respond"
    /\ iteration["web"] = 5
    /\ usedTool["web"]
    /\ Cardinality(lastOp.tools) = 3

----------------------------------------------------------------------------
(* The step ran the next call of the response of invocation p. *)
C30_RanHead(p) ==
    /\ pc[p] = "tools" /\ queue[p] # <<>>
    /\ lastOp'.proc = p
    /\ lastOp'.op = IF RunningCall(p).json THEN RunningCall(p).name
                    ELSE "badArguments"
    /\ messages'[p] = Append(messages[p], ToolAnswer(Head(queue[p]).id))

(* C30: a tool invocation that fails does not skip or abort the            *)
(* invocations listed after it in the same response.  The failed call gets *)
(* its own tool message and the calls after it stay pending, unchanged and *)
(* in order; the tools phase is left only when no call is pending; and     *)
(* each step of the phase runs the next pending call and appends that      *)
(* call's tool message.                                                    *)
C30_ErrorIsolation ==
    [][\A p \in Procs :
          /\ (pc[p] = "tools" /\ lastOp'.proc = p)
                => (/\ C30_RanHead(p)
                    /\ queue'[p] = Tail(queue[p]))
          /\ (pc[p] = "tools" /\ lastOp'.proc = p /\ Len(queue[p]) > 1)
                => pc'[p] = "tools"
          /\ (pc[p] = "tools" /\ pc'[p] # "tools") => Len(queue[p]) = 1
          /\ pc'[p] = "tools" => queue'[p] # <<>>]_vars

(* The first of two listed calls threw: its tool message is in the         *)
(* conversation and the second call is pending, the loop still in the      *)
(* tools phase.                                                            *)
C30_Witness ==
    \E p \in Webs :
        /\ lastOp.proc = p /\ lastOp.output.kind = "error"
        /\ pc[p] = "tools"
        /\ Len(queue[p]) = 1 /\ queue[p][1].id = CallId(1, 2)
        /\ Len(messages[p]) = 4
        /\ messages[p][4] = ToolAnswer(CallId(1, 1))

----------------------------------------------------------------------------
(* C31: updateState returns its success text only when the store accepted  *)
(* the write.  As claimed: when the store answers the write request with   *)
(* an error status, the tool result of the call is an error text and the   *)
(* stored record is unchanged.  updateState never looks at the response.   *)
C31_SuccessOnlyWhenAccepted ==
    [][\A p \in Procs :
          (/\ ToolStepOf(p)
           /\ lastOp'.op = "updateState" /\ lastOp'.outcome = "answered"
           /\ lastOp'.status # 200)
             => (/\ lastOp'.output.kind = "error"
                 /\ lastOp'.text # "updated"
                 /\ storage' = storage)]_vars

----------------------------------------------------------------------------
(* C32: the reminder's write-back changes only lastSent and lastUpdated.   *)
(* As claimed: when the loop of the run has executed an accepted           *)
(* updateState, the description stored after the write-back is the one     *)
(* that updateState wrote.  The write-back sends the copy read before the  *)
(* loop.                                                                   *)
C32_WriteBackKeepsDescription ==
    [][\A p \in Crons :
          (/\ pc[p] = "writeback" /\ pc'[p] = "done"
           /\ lastOp'.op = "reminderWrite"
           /\ wrote[p] # NoText)
             => (/\ storage[PrimaryKey].description = wrote[p]
                 /\ storage'[PrimaryKey].description = wrote[p])]_vars

----------------------------------------------------------------------------
(* The number of tool_calls responses whose calls invocation p has taken   *)
(* up: one assistant message is pushed for each.                           *)
C33_ToolTurns(p) ==
    Cardinality({i \in 1..Len(messages[p]) : messages[p][i].role = "assistant"})

(* One step of invocation p at the cap. *)
C33_AtCap(p) ==
    /\ (ToolStepOf(p) /\ Returned(p)')
          => (/\ iteration[p] = 5
              /\ Len(queue[p]) = 1
              /\ result'[p] = GenericMessage)
    /\ (ToolStepOf(p) /\ iteration[p] = 5)
          => (/\ lastOp'.proc = p
              /\ lastOp'.op = IF RunningCall(p).json THEN RunningCall(p).name
                              ELSE "badArguments"
              /\ (lastOp'.op = "updateState" /\ lastOp'.status = 200)
                    => storage'[PrimaryKey].description = RunningCall(p).description
              /\ IF Len(queue[p]) = 1
                 THEN Returned(p)' /\ result'[p] = GenericMessage
                 ELSE pc'[p] = "tools")
    /\ (iteration[p] = 5 /\ lastOp'.proc = p /\ iteration'[p] = 5)
          => lastOp'.op # "respond"

(* C33: the cap bounds provider round trips, not tool executions.  The     *)
(* calls of the fifth response are run, and what they write is stored,     *)
(* before the generic text is returned; no provider request follows them;  *)
(* and an invocation takes up the calls of at most 5 responses.            *)
C33_CapBoundsRoundTrips ==
    /\ [](\A p \in Procs : C33_ToolTurns(p) <= 5 /\ C33_ToolTurns(p) <= iteration[p])
    /\ [][\A p \in Procs : C33_AtCap(p)]_vars
    /\ \A p \in Webs :
          (pc[p] = "tools" /\ iteration[p] = 5)
             ~> (Returned(p) /\ result[p] = GenericMessage)

(* The fifth response asked for updateState; the store holds what it wrote *)
(* and the invocation has returned the generic text.                       *)
C33_Witness ==
    \E p \in Webs :
        /\ Returned(p) /\ iteration[p] = 5 /\ result[p] = GenericMessage
        /\ C33_ToolTurns(p) = 5
        /\ lastOp.op = "updateState" /\ lastOp.status = 200
        /\ storage[PrimaryKey].description = wrote[p]
        /\ messages[p][Len(messages[p])].role = "tool"

----------------------------------------------------------------------------
(* The step is a write the store accepted, from an updateState or from a   *)
(* reminder's write-back.                                                  *)
C34_AcceptedWrite ==
    lastOp'.op \in {"updateState", "reminderWrite"} /\ lastOp'.status = 200

(* C34: updateState invocations of loops running at the same time never    *)
(* leave a torn record.  After every accepted write the primary record is  *)
(* that write's whole payload, stamped by the store, with no field of an   *)
(* earlier record left in it (last writer wins); no other step changes an  *)
(* existing record; and the record always passes the store's validation.   *)
C34_NoTornRecord ==
    /\ [](Has(storage, PrimaryKey)
            => /\ storage[PrimaryKey].description.type = "string"
               /\ storage[PrimaryKey].lastUpdated.type = "string"
               /\ storage[PrimaryKey].lastSent.type \in {"undefined", "null", "string"})
    /\ [][C34_AcceptedWrite
             => storage'[PrimaryKey] =
                   [description |-> lastOp'.payload.description,
                    lastUpdated |-> Stamp(now),
                    lastSent |-> lastOp'.payload.lastSent]]_vars
    /\ [][(Has(storage, PrimaryKey) /\ ~C34_AcceptedWrite)
             => storage'[PrimaryKey] = storage[PrimaryKey]]_vars

(* The webhook instruction's updateState was accepted while a reminder run *)
(* that had stored another description was still in its loop, over a       *)
(* record carrying a lastSent; the record is the later payload alone.      *)
C34_Witness ==
    /\ lastOp.op = "updateState" /\ lastOp.status = 200 /\ lastOp.proc = "web"
    /\ pc["cron"] \in {"request", "tools", "writeback"}
    /\ wrote["cron"] # NoText /\ wrote["cron"] # wrote["web"]
    /\ stamped # {}
    /\ storage[PrimaryKey].description = wrote["web"]
    /\ storage[PrimaryKey].lastSent = NoStamp

----------------------------------------------------------------------------
(* C35: a verified event that carries a bot_id or has the subtype          *)
(* bot_message is answered 200 OK and nothing else is done for it: no      *)
(* provider call, no store request, no outbound message; a loop is started *)
(* only by a slash command or by a mention or direct message that is not   *)
(* a bot's.                                                                *)
C35_BotMessagesIgnored ==
    [][/\ (/\ lastOp'.request.body = "botMessage"
           /\ lastOp'.request.method = "POST"
           /\ ~C24_BadSignature(lastOp'.request)
           /\ lastOp'.request.timestamp = "recent")
             => (lastOp'.status = 200 /\ C24_NothingDone)
       /\ \A p \in Webs :
             (pc[p] = "idle" /\ pc'[p] # "idle")
                => (/\ lastOp'.op = "start"
                    /\ lastOp'.request.body \in {"command", "message"}
                    /\ slackRequest'[p] = lastOp'.request)
       /\ \A p \in Webs : slackRequest'[p].body # "botMessage"]_vars

(* A verified bot message was answered 200 after an earlier instruction    *)
(* had been answered; the invocation is idle.                              *)
C35_Witness ==
    /\ lastOp.op = "webhook" /\ lastOp.status = 200
    /\ lastOp.request.body = "botMessage"
    /\ lastOp.request.signature = Hmac(SigningSecret, "recent", "botMessage")
    /\ Has(storage, PrimaryKey)
    /\ pc["web"] = "idle" /\ messages["web"] = <<>>

----------------------------------------------------------------------------
(* One step of a slash-command invocation p. *)
C36_CommandStep(p) ==
    /\ (lastOp'.op = "start" /\ lastOp'.proc = p /\ lastOp'.request.body = "command")
          => (/\ lastOp'.status = 200
              /\ lastOp'.text = "Processing your request..."
              /\ pc[p] = "idle" /\ pc'[p] = "request"
              /\ iteration'[p] = 0 /\ result'[p] = "")
    /\ (slackRequest[p].body = "command" /\ lastOp'.proc = p)
          => lastOp'.op # "start"
    /\ (slackRequest[p].body = "command" /\ pc'[p] = "idle")
          => (/\ lastOp'.op = "respondToCommand" /\ lastOp'.proc = p
              /\ pc[p] = "done"
              /\ result[p] \in LoopTexts
              /\ lastOp'.text = result[p]
              /\ Len(lastOp'.requests) \in {1, 2}
              /\ \A i \in 1..Len(lastOp'.requests) :
                    lastOp'.requests[i] = "response_url"
              /\ Len(lastOp'.requests) = 2 <=> lastOp'.outcome = "threw"
              /\ lastOp'.outcome \in {"ok", "notOk", "threw"})

(* C36: a verified /rusty command is acknowledged at once with the         *)
(* "Processing your request..." response, before the loop has made a       *)
(* provider request and whatever it will return; the background task runs  *)
(* the loop once and then posts to the response_url once, or twice exactly *)
(* when posting the reply threw, and ends without an exception.            *)
C36_AcknowledgedThenPosted ==
    /\ [][\A p \in Webs : C36_CommandStep(p)]_vars
    /\ \A p \in Webs :
          (slackRequest[p].body = "command")
             ~> (lastOp.op = "respondToCommand" /\ lastOp.proc = p
                 /\ pc[p] = "idle")

(* The loop returned the provider-failure text; posting it threw and so    *)
(* did posting the error reply: two posts, and the task has ended.         *)
C36_Witness ==
    /\ lastOp.op = "respondToCommand"
    /\ lastOp.text = TechnicalMessage
    /\ lastOp.outcome = "threw" /\ lastOp.calls = 2
    /\ lastOp.requests = <<"response_url", "response_url">>
    /\ pc["web"] = "idle"

----------------------------------------------------------------------------
(* One step of the webhook process p as far as Slack events go. *)
C37_EventStep(p) ==
    /\ (/\ lastOp'.op = "webhook" /\ lastOp'.proc = p
        /\ lastOp'.request.method = "POST"
        /\ VerifySlackSignature(lastOp'.request)
        /\ lastOp'.request.body \in {"botMessage", "otherEvent"})
          => (/\ lastOp'.status = 200
              /\ UNCHANGED <<storage, pc, iteration, messages, slackRequest>>)
    /\ (lastOp'.op = "start" /\ lastOp'.proc = p /\ lastOp'.request.body = "message")
          => (/\ VerifySlackSignature(lastOp'.request)
              /\ pc[p] = "idle" /\ pc'[p] = "request" /\ iteration'[p] = 0)
    /\ (slackRequest[p].body = "message" /\ lastOp'.proc = p)
          => lastOp'.op # "start"
    /\ (slackRequest[p].body = "message" /\ pc'[p] = "idle")
          => (/\ lastOp'.op = "respondToEvent" /\ lastOp'.proc = p
              /\ pc[p] = "done"
              /\ result[p] \in LoopTexts
              /\ lastOp'.text = result[p]
              /\ lastOp'.requests = <<"chat.postMessage">>
              /\ lastOp'.outcome \in {"ok", "notOk", "threw"}
              /\ lastOp'.status = 200
              /\ UNCHANGED storage)

(* C37: every verified event is answered 200; a bot message or an event    *)
(* that is no mention or direct message is answered without anything being *)
(* done; a processed message runs the loop once, then makes one            *)
(* chat.postMessage attempt, and the answer is 200 whether that attempt    *)
(* succeeded, was refused or threw, with no second attempt.                *)
C37_EventsAlwaysAnswered200 ==
    /\ [][\A p \in Webs : C37_EventStep(p)]_vars
    /\ \A p \in Webs :
          (slackRequest[p].body = "message")
             ~> (lastOp.op = "respondToEvent" /\ lastOp.proc = p
                 /\ lastOp.status = 200 /\ pc[p] = "idle")

(* Slack refused the one chat.postMessage of a processed message whose     *)
(* loop had used a tool; the event was still answered 200.                 *)
C37_Witness ==
    /\ lastOp.op = "respondToEvent"
    /\ lastOp.request.body = "message"
    /\ lastOp.outcome = "notOk"
    /\ lastOp.status = 200
    /\ lastOp.requests = <<"chat.postMessage">>
    /\ lastOp.text \notin {TechnicalMessage, ""}
    /\ pc["web"] = "idle"

====
